---- MODULE Spec2Model ----
(***************************************************************************)
(* A model of clawlet: the session store (session/session.go), the         *)
(* consolidation commit protocol (agent/consolidation.go) with the memory  *)
(* files, the in-process bus (bus/bus.go), the cron service, the agent     *)
(* loop's tool iterations, Telegram's Send with its retries, the Slack     *)
(* Events API endpoint, the tools (exec and its guard, the file tools, the *)
(* domain policy of web_fetch, the registry), the channels' allow list and *)
(* the slash commands.                                                     *)
(*                                                                         *)
(* Spec        : one session object and its JSONL file.                    *)
(* SpecCons    : the session and one consolidation task.                   *)
(* SpecEdit    : the session under every in-memory mutation.               *)
(* SpecBus     : the two bounded queues with cancellable tasks.            *)
(* SpecCron    : the cron service's ticks and RunNow; SpecCronAdd: Add.    *)
(* SpecTurn    : one turn of the agent loop after another.                 *)
(* SpecSend    : Telegram's Send; SpecRetry: shouldRetryTelegramSend.      *)
(* SpecSlack   : HTTP requests to the Slack endpoint, publishing inbound.  *)
(* SpecExec    : the exec tool and guardExecCommand on a set of commands.  *)
(* SpecPath    : the file tools and resolvePath on a host with links.      *)
(* SpecHost    : allowHostByPolicy; SpecEnv: the environment of exec.      *)
(* SpecReg     : the tool registry; SpecAllow: AllowList.Allowed.          *)
(* SpecSlash   : the slash commands; SpecSave: Save after a Load.          *)
(* SpecStore   : the session and its file across restarts of the process.  *)
(* SpecSaveErr : the session and its file when a compaction can fail.      *)
(* SpecSnap    : SnapshotForConsolidation on sessions of up to 51 messages.*)
(* SpecAdd     : AddWithTools on every list of tool names.                 *)
(* SpecShutdown: the bus calls in progress when the root context is        *)
(*               cancelled.                                                *)
(***************************************************************************)
EXTENDS Integers, Sequences, FiniteSets, TLC

(***************************************************************************)
(* Bounds of the model.                                                    *)
(***************************************************************************)
\* total number of messages ever appended in one behaviour of Spec
MaxAdds == 3
\* total number of messages ever appended in one behaviour of SpecCons
MaxConsAdds == 4
\* number of publish calls in one behaviour
MaxPublishes == 3
\* the largest buffer argument bus.New is tried with
MaxBuffer == 2
\* number of restarts of the process in one behaviour
MaxRestarts == 2
\* number of Add calls in one behaviour of SpecStore
MaxRestartAdds == 1
\* total number of messages ever appended in one behaviour of SpecSaveErr
MaxStoreAdds == 2
\* total number of messages ever appended in one behaviour of SpecSnap: one
\* more than the default window of 50
MaxSnapshotAdds == 51
\* number of consolidations applied in one behaviour of SpecSnap
MaxSnapshotApplies == 1
\* number of AddWithTools calls in one behaviour of SpecAdd, and the longest
\* list of tool names passed
MaxToolAdds == 1
MaxToolsUsed == 3
\* number of paths the other process replaces by links during one write_file call
MaxLinkSwaps == 1
\* largest count web_search is called with, and most results Brave returns
MaxCountTried == 12
MaxResults == 12
\* number of Session objects made by one Manager
MaxSessionObjects == 3

\* The compaction thresholds are package variables (the tests reassign them);
\* the model runs them scaled down, keeping everySaves + 1 < maxMetadataLines
\* as in the defaults 100 / 200.
appendCompactionEverySaves == 1
appendCompactionMaxMetadataLines == 3
\* bytes; scaled so that two long lines reach it
appendCompactionMaxFileBytes == 140300

\* bufio.MaxScanTokenSize: the longest line bufio.Scanner (default buffer)
\* can return
MaxScanTokenSize == 65536
\* the byte length of a content string: a short one and one of 70000 bytes
ShortContent == 2
LongContent == 70000
ContentLens == {ShortContent, LongContent}
\* bytes of a marshalled message besides its content; bytes of a metadata line
MsgLineOverhead == 80
MetaLineBytes == 100

\* the values of the free-form metadata mapping
MetadataValues == {0, 1}
\* the memoryWindow arguments tried
Windows == 0..MaxConsAdds

Min(a, b) == IF a < b THEN a ELSE b
Max(a, b) == IF a > b THEN a ELSE b

VARIABLES
    \* ---- Session (the in-memory object) ----
    Messages,            \* Session.Messages: sequence of [id, len]
    Metadata,            \* Session.Metadata (abstract value)
    UpdatedAt,           \* Session.UpdatedAt
    version,             \* Session.version
    persistedMessages,   \* Session.persistedMessages
    appendSaves,         \* Session.appendSaves
    metadataLineCount,   \* Session.metadataLineCount
    needsCompaction,     \* Session.needsCompaction
    \* ---- environment ----
    file,                \* the session's JSONL file: [exists, lines]
    clock,               \* the number of readings of time.Now so far
    \* ---- maybeConsolidateSession (one task) ----
    cons,                \* the task's position, locals and record (see ConsIdle)
    \* ---- history ----
    nextId,              \* identities of appended messages
    appended,            \* every message appended to this session object, in order
    applied,             \* a consolidation was applied since the last Save
    restarts,            \* restarts of the process so far
    last,                \* the last operation: its arguments, pre-state and result
    \* ---- Bus ----
    requestedBuffer,     \* the argument bus.New was called with
    bufferSize,          \* cap(b.in) = cap(b.out)
    chanBuf,             \* chanBuf[d]: the buffered messages of direction d
    call,                \* call[t]: the bus call task t is in
    ctxDone,             \* the gateway's root context is cancelled
    nextMsg,             \* identities of published messages
    published,           \* published[d]: messages whose publish completed, in order
    consumed,            \* consumed[d]: messages consumed, in order
    \* ---- memory.Store (the workspace's memory directory) ----
    memoryFile,          \* memory/MEMORY.md: [exists, text]
    historyFile,         \* memory/HISTORY.md: [exists, entries]
    \* ---- cron.Service ----
    cronNow,             \* the wall clock, in milliseconds
    jobs,                \* jobs[j]: the job with id j (exists = FALSE: no such job)
    active,              \* active[j]: invocations of trigger for job j in progress
    run,                 \* run[j]: the run of job j in progress: [by, start]
    triggers,            \* triggers[j]: invocations of trigger for job j so far
    lastAdd,             \* the last Add call: its schedule, the time, its result
    runNow,              \* the last RunNow call: its arguments, and the number of
                         \* trigger invocations for its job from call to return
    \* ---- agent.Loop: the turn in progress ----
    turn,                \* [pc, maxIters, iters, outcome, reply, toolError]
    turns,               \* turns started so far
    \* ---- telegram.Channel.Send ----
    send,                \* the Send call: [pc, attempt, attempts, err, how, wait]
    sendCtx,             \* the context of the Send call is cancelled
    sends,               \* Send calls so far
    retryCall,           \* the last direct call of shouldRetryTelegramSend
    \* ---- slack.Channel: the Events API endpoint ----
    slackChan,           \* the channel: [created, signingSecret]
    req,                 \* req[r]: the r-th HTTP request, its response and the
                         \* handleEvent goroutine it started
    nreq,                \* HTTP requests so far
    \* ---- tools.Registry ----
    execCall,            \* the call of the exec tool: [pc, command, restrict, out, err, ran]
    pathCall,            \* the call of a file tool: [pc, tool, path, restrict, resolved,
                         \* err, touched]
    hostCall,            \* the call of allowHostByPolicy: [pc, host, allowed, blocked, ok,
                         \* reason]
    envCall,             \* a command run by exec in two processes: [pc, command, environ,
                         \* cmdEnv, out]
    regCall,             \* a call of the tool registry: [pc, registry, name, defs, err]
    allowCall,           \* a call of AllowList.Allowed: [pc, AllowFrom, senderID, ok]
    slashCall,           \* a call of handleSlashCommand: [pc, text, before, after, handled,
                         \* out]
    writeCall,           \* a write_file call, step by step, beside another process:
                         \* [pc, path, abs, made, target, links, err, wrote]
    searchCall,          \* a web_search call: [pc, count, results, used, formatted]
    mgr                  \* the session Manager and the GetOrCreate calls of the tasks:
                         \* [cache, made, calls, returned, overlap]

sessVars == <<Messages, Metadata, UpdatedAt, version, persistedMessages, appendSaves,
              metadataLineCount, needsCompaction, file, clock, cons, nextId, appended,
              applied, restarts, last>>
busVars == <<requestedBuffer, bufferSize, chanBuf, call, ctxDone, nextMsg, published, consumed>>
memVars == <<memoryFile, historyFile>>
cronVars == <<cronNow, jobs, active, run, triggers, lastAdd, runNow>>
turnVars == <<turn, turns>>
\* the agent loop and the channels
sendVars == <<send, sendCtx, sends, retryCall>>
slackVars == <<slackChan, req, nreq>>
appVars == <<turnVars, sendVars, slackVars>>
toolVars == <<execCall, pathCall, hostCall, envCall, regCall, allowCall, slashCall, writeCall,
              searchCall, mgr>>
vars == <<sessVars, busVars, memVars, cronVars, appVars, toolVars>>
\* a step of the tools leaves the session, the bus, the cron service, the agent
\* loop and the channels alone
AppUnchanged == UNCHANGED <<sessVars, busVars, memVars, cronVars, appVars>>


(***************************************************************************)
(* The session file.                                                       *)
(***************************************************************************)
NoMsg == [id |-> 0, len |-> 0, tools |-> <<>>]
NoFile == [exists |-> FALSE, lines |-> <<>>]

\* json.Marshal(metadataLine{...}) as one line of the file
MetaLine(upd, md) == [type |-> "metadata", upd |-> upd, md |-> md, msg |-> NoMsg]
\* json.Marshal(Message{...}) as one line of the file
MsgLine(m) == [type |-> "message", upd |-> 0, md |-> 0, msg |-> m]
MsgLines(msgs) == [i \in 1..Len(msgs) |-> MsgLine(msgs[i])]

\* the byte length of a line, without its newline
LineLen(line) ==
    IF line.type = "metadata" THEN MetaLineBytes ELSE MsgLineOverhead + line.msg.len

RECURSIVE SumBytes(_)
SumBytes(lines) ==
    IF lines = <<>> THEN 0 ELSE LineLen(Head(lines)) + 1 + SumBytes(Tail(lines))

\* os.Stat(path).Size()
FileSize(f) == SumBytes(f.lines)

IsMeta(line) == line.type = "metadata"
IsMsg(line) == line.type = "message"

\* bufio.Scanner with the default buffer stops with ErrTooLong at a line that
\* does not fit into MaxScanTokenSize bytes
ScanTooLong(lines) == \E i \in 1..Len(lines) : LineLen(lines[i]) >= MaxScanTokenSize

\* Load(dir, key): the scan of the file. found = FALSE is the (nil, nil) return,
\* ok = FALSE is the (nil, err) return.
Load(f) ==
    LET metas == SelectSeq(f.lines, IsMeta)
        msgl  == SelectSeq(f.lines, IsMsg)
        msgs  == [i \in 1..Len(msgl) |-> msgl[i].msg]
    IN  IF ~f.exists
        THEN [ok |-> TRUE, found |-> FALSE, Messages |-> <<>>, Metadata |-> 0,
              hasMeta |-> FALSE, UpdatedAt |-> 0, metadataLines |-> 0]
        ELSE IF ScanTooLong(f.lines)
        THEN [ok |-> FALSE, found |-> TRUE, Messages |-> <<>>, Metadata |-> 0,
              hasMeta |-> FALSE, UpdatedAt |-> 0, metadataLines |-> 0]
        ELSE [ok |-> TRUE, found |-> TRUE, Messages |-> msgs,
              Metadata |-> IF metas = <<>> THEN 0 ELSE metas[Len(metas)].md,
              hasMeta |-> metas # <<>>,
              UpdatedAt |-> IF metas = <<>> THEN 0 ELSE metas[Len(metas)].upd,
              metadataLines |-> Len(metas)]

(***************************************************************************)
(* Session: pure parts. A string is the sequence of its characters.        *)
(***************************************************************************)
IsSpace(c) == c \in {" ", "\t", "\n", "\r"}
\* strings.TrimSpace
TrimSpace(s) ==
    LET keep == {i \in 1..Len(s) : ~IsSpace(s[i])}
    IN  IF keep = {} THEN <<>>
        ELSE SubSeq(s, CHOOSE i \in keep : \A j \in keep : i <= j,
                       CHOOSE i \in keep : \A j \in keep : j <= i)

\* The list AddWithTools stores as Message.ToolsUsed: each name trimmed, the
\* empty ones left out (a nil and an empty list are both <<>>).
copyToolsUsed(toolsUsed) ==
    SelectSeq([i \in 1..Len(toolsUsed) |-> TrimSpace(toolsUsed[i])],
              LAMBDA name : name # <<>>)

\* time.Now(): every reading is later than the one before
Now == clock + 1

cloneMessages(in) == in

\* (mutant) the version is left as it was
NextVersionStuck(v) == v
\* s.version++
NextVersion(v) == v + 1

\* (mutant) the captured version is not compared
VersionIgnored(v, ver) == TRUE
\* the guard of ApplyConsolidation on the caller's captured version
VersionMatches(v, ver) == v = ver

\* (mutants) the slice is off by one; the slice is taken from the front
KeepTailOffByOne(msgs, keep) == SubSeq(msgs, Len(msgs) - keep, Len(msgs))
KeepHead(msgs, keep) == SubSeq(msgs, 1, keep)
\* s.Messages[len(s.Messages)-keep:]
KeepTail(msgs, keep) == SubSeq(msgs, Len(msgs) - keep + 1, Len(msgs))

\* memoryWindow <= 0 means 50
EffectiveWindow(memoryWindow) == IF memoryWindow <= 0 THEN 50 ELSE memoryWindow

\* keep = min(10, max(2, memoryWindow/2))
SnapshotKeep(memoryWindow) == Min(10, Max(2, memoryWindow \div 2))

\* NeedsConsolidation(memoryWindow) on a session with messages msgs
NeedsConsolidation(msgs, memoryWindow) == Len(msgs) > EffectiveWindow(memoryWindow)

\* the return values nil, 0, 0, false
NoSnapshot == [old |-> <<>>, keep |-> 0, version |-> 0, ok |-> FALSE]

\* (mutant) the copy ends one message early
SnapshotOneShort(msgs, ver, memoryWindow) ==
    IF Len(msgs) <= EffectiveWindow(memoryWindow) THEN NoSnapshot
    ELSE IF SnapshotKeep(EffectiveWindow(memoryWindow)) >= Len(msgs) THEN NoSnapshot
    ELSE [old |-> cloneMessages(SubSeq(msgs, 1,
                      Len(msgs) - SnapshotKeep(EffectiveWindow(memoryWindow)) - 1)),
          keep |-> SnapshotKeep(EffectiveWindow(memoryWindow)),
          version |-> ver, ok |-> TRUE]
\* SnapshotForConsolidation(memoryWindow) on a session with messages msgs and
\* version ver: (oldMessages, keep, version, ok)
SnapshotForConsolidation(msgs, ver, memoryWindow) ==
    IF Len(msgs) <= EffectiveWindow(memoryWindow) THEN NoSnapshot
    ELSE IF SnapshotKeep(EffectiveWindow(memoryWindow)) >= Len(msgs) THEN NoSnapshot
    ELSE [old |-> cloneMessages(SubSeq(msgs, 1,
                      Len(msgs) - SnapshotKeep(EffectiveWindow(memoryWindow)))),
          keep |-> SnapshotKeep(EffectiveWindow(memoryWindow)),
          version |-> ver, ok |-> TRUE]

\* (mutant) the count of metadata lines is not looked at
shouldCompactIgnoringMetadataLines(nc, saves, metaLines, f) ==
    \/ nc
    \/ appendCompactionEverySaves > 0 /\ saves >= appendCompactionEverySaves
    \/ appendCompactionMaxFileBytes > 0 /\ f.exists /\ FileSize(f) >= appendCompactionMaxFileBytes
\* (mutant) the size of the file is not looked at
shouldCompactIgnoringSize(nc, saves, metaLines, f) ==
    \/ nc
    \/ appendCompactionEverySaves > 0 /\ saves >= appendCompactionEverySaves
    \/ appendCompactionMaxMetadataLines > 0 /\ metaLines >= appendCompactionMaxMetadataLines
shouldCompact(nc, saves, metaLines, f) ==
    \/ nc
    \/ appendCompactionEverySaves > 0 /\ saves >= appendCompactionEverySaves
    \/ appendCompactionMaxMetadataLines > 0 /\ metaLines >= appendCompactionMaxMetadataLines
    \/ appendCompactionMaxFileBytes > 0 /\ f.exists /\ FileSize(f) >= appendCompactionMaxFileBytes

\* what saveAppendLocked leaves in the file (O_CREATE|O_APPEND)
AppendedFile(f, upd, md, msgs, persisted) ==
    [exists |-> TRUE,
     lines |-> f.lines \o <<MetaLine(upd, md)>>
                 \o MsgLines(SubSeq(msgs, Max(0, persisted) + 1, Len(msgs)))]

\* (mutant) the compacted lines are appended to the old file
CompactedFileAppends(f, upd, md, msgs) ==
    [exists |-> TRUE, lines |-> f.lines \o <<MetaLine(upd, md)>> \o MsgLines(msgs)]
\* what saveCompactLocked leaves in the file (temporary file, then rename)
CompactedFile(f, upd, md, msgs) ==
    [exists |-> TRUE, lines |-> <<MetaLine(upd, md)>> \o MsgLines(msgs)]

\* The steps of saveCompactLocked that can fail: os.OpenFile of the temporary
\* file, bw.Write, bw.Flush, f.Close and os.Rename.
CompactSteps == {"create", "write", "flush", "close", "rename"}

\* the numbers of complete lines that can have reached the temporary file
\* when the step fails, of total lines written
LinesReached(step, total) ==
    IF step = "create" THEN {0}
    ELSE IF step \in {"write", "flush", "close"} THEN 0..total
    ELSE {total}

\* (mutant) the lines are written to the target itself, opened with O_TRUNC
FailedCompactionInPlace(f, step, n, upd, md, msgs) ==
    [target |-> IF step = "create" THEN f
                ELSE [exists |-> TRUE,
                      lines |-> SubSeq(CompactedFile(f, upd, md, msgs).lines, 1, n)],
     tmp |-> NoFile]
\* The target and the temporary file path + ".tmp" as a saveCompactLocked that
\* fails at step leaves them: the temporary file is created (O_TRUNC) and
\* written, the target is touched by the rename only.
FailedCompaction(f, step, n, upd, md, msgs) ==
    [target |-> f,
     tmp |-> IF step = "create" THEN NoFile
             ELSE [exists |-> TRUE,
                   lines |-> SubSeq(CompactedFile(f, upd, md, msgs).lines, 1, n)]]

\* what the last operation was called with and saw. pre is the session as an
\* ApplyConsolidation call found it; appends is the number of append saves made
\* to the file since it was last compacted (or created), by whichever session
\* object; step and tmp are the step a failed compaction failed at and the
\* temporary file it left; window and old are the argument and the copy of a
\* SnapshotForConsolidation call; toolsUsed is the list an AddWithTools call
\* was passed.
NoPre == [Messages |-> <<>>, version |-> 0, UpdatedAt |-> 0, needsCompaction |-> FALSE]
Pre == [Messages |-> Messages, version |-> version, UpdatedAt |-> UpdatedAt,
        needsCompaction |-> needsCompaction]

Op(name, ok, path) ==
    [op |-> name, ok |-> ok, path |-> path, ver |-> 0, keep |-> 0,
     applied |-> applied, pre |-> NoPre, appends |-> last.appends,
     step |-> "", tmp |-> NoFile, window |-> 0, old |-> <<>>,
     toolsUsed |-> <<>>]

ApplyOp(ok, ver, keep) ==
    [op |-> "Apply", ok |-> ok, path |-> "", ver |-> ver, keep |-> keep,
     applied |-> applied, pre |-> Pre, appends |-> last.appends,
     step |-> "", tmp |-> NoFile, window |-> 0, old |-> <<>>,
     toolsUsed |-> <<>>]

\* The consolidation task: where it is, what its snapshot returned, the
\* long-term memory it read, and what it has done: appends that ran while it
\* was in summarize, calls of summarize, writes of the two memory files, the
\* session as the commit found and left it, and its return values (done, err).
ConsIdle == [pc |-> "idle", old |-> <<>>, keep |-> 0, ver |-> 0, adds |-> 0,
             ok |-> FALSE, before |-> <<>>, after |-> <<>>,
             currentMemory |-> "", calls |-> 0, memWrites |-> 0, histWrites |-> 0,
             done |-> FALSE, err |-> FALSE]

(***************************************************************************)
(* memory.Store: MEMORY.md and HISTORY.md. A text stands for its trimmed   *)
(* form (strings.TrimSpace); "" is the empty text.                         *)
(***************************************************************************)
NoMemoryFile == [exists |-> FALSE, text |-> ""]
NoHistoryFile == [exists |-> FALSE, entries |-> <<>>]
\* "# Long-term Memory\n\n", trimmed
LongTermHeader == "# Long-term Memory"
\* what summarize returns as memory_update and as history_entry
MemoryUpdates == {"", "facts"}
HistoryEntries == {"", "entry"}

\* EnsureInitialized: MEMORY.md is created with its header when it is missing
EnsureInitialized(f) == IF f.exists THEN f ELSE [exists |-> TRUE, text |-> LongTermHeader]
\* ReadLongTerm: EnsureInitialized, then the content of MEMORY.md
ReadLongTerm(f) == EnsureInitialized(f).text
\* WriteLongTerm(content): MEMORY.md is overwritten
WriteLongTerm(f, text) == [exists |-> TRUE, text |-> text]
\* AppendHistory(entry): HISTORY.md is created on first use, the entry appended
AppendHistory(h, entry) == [exists |-> TRUE, entries |-> Append(h.entries, entry)]

\* the conditions under which maybeConsolidateSession writes after a commit
WritesHistory(historyEntry) == historyEntry # ""
WritesLongTerm(memoryUpdate, currentMemory) ==
    memoryUpdate # "" /\ memoryUpdate # currentMemory

(***************************************************************************)
(* Session: operations.                                                    *)
(***************************************************************************)
BusUnchanged == UNCHANGED busVars

\* every operation but Restart runs within one process
MemoryUnchanged == UNCHANGED memVars
CronUnchanged == UNCHANGED cronVars
\* the components a session operation does not touch
OthersUnchanged == BusUnchanged /\ CronUnchanged /\ UNCHANGED <<appVars, toolVars>>
SameProcess == UNCHANGED restarts /\ OthersUnchanged /\ MemoryUnchanged

Bookkeeping == <<persistedMessages, appendSaves, metadataLineCount, needsCompaction>>

\* AddWithTools(role, content, toolsUsed): append one message under the lock.
\* contentLen is the byte length of content.
AddWithTools(contentLen, toolsUsed) ==
    /\ \E m \in {[id |-> nextId, len |-> contentLen, tools |-> copyToolsUsed(toolsUsed)]} :
           /\ Messages' = Append(Messages, m)
           /\ UpdatedAt' = Now
           /\ clock' = Now
           /\ version' = NextVersion(version)
           /\ appended' = Append(appended, m)
    /\ nextId' = nextId + 1
    /\ cons' = IF cons.pc = "summarize" THEN [cons EXCEPT !.adds = @ + 1] ELSE cons
    /\ last' = [Op("Add", TRUE, "") EXCEPT !.toolsUsed = toolsUsed]
    /\ UNCHANGED <<Metadata, Bookkeeping, file, applied>>
    /\ SameProcess

\* the names and the lists of names AddWithTools is tried with: two names, one
\* of them also with white space around it, a blank and an empty one
ToolNameInputs ==
    {<<"e", "x", "e", "c">>, <<" ", "e", "x", "e", "c", "\n">>,
     <<"r", "e", "a", "d", "_", "f", "i", "l", "e">>, <<" ", "\t">>, <<>>}
ToolLists == UNION {[1..n -> ToolNameInputs] : n \in 0..MaxToolsUsed}

\* Add(role, content) is AddWithTools(role, content, nil)
Add(contentLen) == AddWithTools(contentLen, <<>>)

\* The effect of ApplyConsolidation(ver, keep) on the session; the result is
\* ApplyReturns(ver, keep).
ApplyReturns(ver, keep) ==
    /\ VersionMatches(version, ver)
    /\ ~(keep < 0 \/ keep >= Len(Messages))

ApplyConsolidation(ver, keep) ==
    IF ~VersionMatches(version, ver)
    THEN UNCHANGED <<Messages, UpdatedAt, clock, version, needsCompaction, applied>>
    ELSE IF keep < 0 \/ keep >= Len(Messages)
    THEN UNCHANGED <<Messages, UpdatedAt, clock, version, needsCompaction, applied>>
    ELSE /\ Messages' = cloneMessages(KeepTail(Messages, keep))
         /\ UpdatedAt' = Now
         /\ clock' = Now
         /\ version' = NextVersion(version)
         /\ needsCompaction' = TRUE
         /\ applied' = TRUE

\* the arguments a direct ApplyConsolidation call is tried with: the current
\* version and another one; a negative keep, every keep below the message
\* count and the message count itself
ApplyVersions == {version, version + 1}
ApplyKeeps == (-1)..Len(Messages)

\* a direct call of ApplyConsolidation
ApplyCall ==
    \E ver \in ApplyVersions, keep \in ApplyKeeps :
        /\ ApplyConsolidation(ver, keep)
        /\ last' = ApplyOp(ApplyReturns(ver, keep), ver, keep)
        /\ UNCHANGED <<Metadata, persistedMessages, appendSaves, metadataLineCount,
                       file, cons, nextId, appended>>
        /\ SameProcess

\* the windows a direct SnapshotForConsolidation call is tried with: negative
\* and zero (the default of 50), the small ones, those around keep = 10, and
\* the default itself
SnapshotWindows == {-1, 0, 1, 2, 3, 4, 6, 19, 20, 50}

\* a direct call of SnapshotForConsolidation
SnapshotCall ==
    \E memoryWindow \in SnapshotWindows :
    \E r \in {SnapshotForConsolidation(Messages, version, memoryWindow)} :
        /\ last' = [ApplyOp(r.ok, r.version, r.keep) EXCEPT
                       !.op = "SnapshotForConsolidation",
                       !.window = memoryWindow, !.old = r.old]
        /\ UNCHANGED <<Messages, Metadata, UpdatedAt, version, Bookkeeping, file, clock,
                       cons, nextId, appended, applied>>
        /\ SameProcess

\* ApplyConsolidation called with the version and keep of the snapshot just
\* taken, as maybeConsolidateSession calls it
ApplySnapshot ==
    /\ last.op = "SnapshotForConsolidation"
    /\ last.ok
    /\ ApplyConsolidation(last.ver, last.keep)
    /\ last' = [ApplyOp(ApplyReturns(last.ver, last.keep), last.ver, last.keep) EXCEPT
                   !.path = "snapshot", !.window = last.window, !.old = last.old]
    /\ UNCHANGED <<Metadata, persistedMessages, appendSaves, metadataLineCount,
                   file, cons, nextId, appended>>
    /\ SameProcess

\* saveAppendLocked(path, s); nc is s.needsCompaction as Save left it
saveAppendLocked(nc) ==
    /\ file' = AppendedFile(file, UpdatedAt, Metadata, Messages, persistedMessages)
    /\ persistedMessages' = Len(Messages)
    /\ appendSaves' = appendSaves + 1
    /\ metadataLineCount' = metadataLineCount + 1
    /\ needsCompaction' = nc
    /\ last' = [Op("Save", TRUE, "append") EXCEPT !.appends = @ + 1]

\* saveCompactLocked(path, s)
saveCompactLocked(nc) ==
    /\ file' = CompactedFile(file, UpdatedAt, Metadata, Messages)
    /\ persistedMessages' = Len(Messages)
    /\ appendSaves' = 0
    /\ metadataLineCount' = 1
    /\ needsCompaction' = FALSE
    /\ last' = [Op("Save", TRUE, "compact") EXCEPT !.appends = 0]

\* Save(dir, s), successful
Save ==
    LET nc == IF persistedMessages > Len(Messages) THEN TRUE ELSE needsCompaction
    IN  /\ IF shouldCompact(nc, appendSaves, metadataLineCount, file)
           THEN saveCompactLocked(nc)
           ELSE saveAppendLocked(nc)
        /\ applied' = FALSE
        /\ UNCHANGED <<Messages, Metadata, UpdatedAt, version, clock, cons, nextId, appended>>
        /\ SameProcess

\* Save(dir, s) on the compact path when a step of saveCompactLocked fails:
\* the error is returned, with needsCompaction as Save left it
SaveCompactFails ==
    LET nc == IF persistedMessages > Len(Messages) THEN TRUE ELSE needsCompaction
    IN  \E step \in CompactSteps :
        \E n \in LinesReached(step, 1 + Len(Messages)) :
        \E d \in {FailedCompaction(file, step, n, UpdatedAt, Metadata, Messages)} :
            /\ shouldCompact(nc, appendSaves, metadataLineCount, file)
            /\ file' = d.target
            /\ needsCompaction' = nc
            /\ last' = [Op("Save", FALSE, "compact") EXCEPT !.step = step, !.tmp = d.tmp]
            /\ UNCHANGED <<Messages, Metadata, UpdatedAt, version, clock, cons, nextId,
                           appended, applied, persistedMessages, appendSaves,
                           metadataLineCount>>
            /\ SameProcess

\* maybeConsolidateSession up to the summarize call: SnapshotForConsolidation
SnapshotOk(memoryWindow) ==
    /\ Len(Messages) > EffectiveWindow(memoryWindow)
    /\ SnapshotKeep(EffectiveWindow(memoryWindow)) < Len(Messages)

\* and store.ReadLongTerm(), then the call of summarize
ConsolidateSnapshot ==
    \E memoryWindow \in Windows :
        /\ cons.pc # "summarize"
        /\ SnapshotOk(memoryWindow)
        /\ LET keep == SnapshotKeep(EffectiveWindow(memoryWindow))
           IN cons' = [ConsIdle EXCEPT !.pc = "summarize",
                         !.old = cloneMessages(SubSeq(Messages, 1, Len(Messages) - keep)),
                         !.keep = keep, !.ver = version,
                         !.currentMemory = ReadLongTerm(memoryFile),
                         !.calls = 1,
                         !.memWrites = IF memoryFile.exists THEN 0 ELSE 1]
        /\ memoryFile' = EnsureInitialized(memoryFile)
        /\ last' = Op("Snapshot", TRUE, "")
        /\ UNCHANGED <<Messages, Metadata, UpdatedAt, version, Bookkeeping, file, clock,
                       nextId, appended, applied, historyFile>>
        /\ UNCHANGED restarts /\ OthersUnchanged

\* maybeConsolidateSession when SnapshotForConsolidation answers !ok:
\* return false, nil
ConsolidateSkip ==
    \E memoryWindow \in Windows :
        /\ cons.pc # "summarize"
        /\ ~SnapshotOk(memoryWindow)
        /\ cons' = [ConsIdle EXCEPT !.pc = "skipped"]
        /\ last' = Op("Skip", TRUE, "")
        /\ UNCHANGED <<Messages, Metadata, UpdatedAt, version, Bookkeeping, file, clock,
                       nextId, appended, applied>>
        /\ SameProcess

\* summarize returned an error: maybeConsolidateSession returns (false, err)
ConsolidateSummarizeError ==
    /\ cons.pc = "summarize"
    /\ cons' = [cons EXCEPT !.pc = "failed", !.done = FALSE, !.err = TRUE,
                            !.before = Messages, !.after = Messages]
    /\ last' = Op("SummarizeError", FALSE, "")
    /\ UNCHANGED <<Messages, Metadata, UpdatedAt, version, Bookkeeping, file, clock,
                   nextId, appended, applied>>
    /\ SameProcess

\* summarize returned: sess.ApplyConsolidation(version, keep) with the captured values
\* and, when that answers true, the writes of HISTORY.md and MEMORY.md
\* (successful writes: return true, nil)
ConsolidateCommit ==
    \E historyEntry \in HistoryEntries, memoryUpdate \in MemoryUpdates :
        LET ok == ApplyReturns(cons.ver, cons.keep)
            wh == ok /\ WritesHistory(historyEntry)
            wm == ok /\ WritesLongTerm(memoryUpdate, cons.currentMemory)
        IN  /\ cons.pc = "summarize"
            /\ ApplyConsolidation(cons.ver, cons.keep)
            /\ historyFile' = IF wh THEN AppendHistory(historyFile, historyEntry)
                               ELSE historyFile
            /\ memoryFile' = IF wm THEN WriteLongTerm(memoryFile, memoryUpdate)
                              ELSE memoryFile
            /\ cons' = [cons EXCEPT !.pc = "committed", !.ok = ok,
                                    !.before = Messages, !.after = Messages',
                                    !.histWrites = IF wh THEN @ + 1 ELSE @,
                                    !.memWrites = IF wm THEN @ + 1 ELSE @,
                                    !.done = ok, !.err = FALSE]
            /\ last' = ApplyOp(ok, cons.ver, cons.keep)
            /\ UNCHANGED <<Metadata, persistedMessages, appendSaves, metadataLineCount,
                           file, nextId, appended>>
            /\ UNCHANGED restarts /\ OthersUnchanged

\* summarize returned a history entry that is not blank, ApplyConsolidation
\* answered true and store.AppendHistory returned an error:
\* maybeConsolidateSession returns (false, err), MEMORY.md is not written
ConsolidateHistoryFails ==
    \E historyEntry \in HistoryEntries :
        /\ cons.pc = "summarize"
        /\ ApplyReturns(cons.ver, cons.keep)
        /\ WritesHistory(historyEntry)
        /\ ApplyConsolidation(cons.ver, cons.keep)
        /\ cons' = [cons EXCEPT !.pc = "failed", !.ok = TRUE,
                                !.before = Messages, !.after = Messages',
                                !.done = FALSE, !.err = TRUE]
        /\ last' = ApplyOp(TRUE, cons.ver, cons.keep)
        /\ UNCHANGED <<Metadata, persistedMessages, appendSaves, metadataLineCount,
                       file, nextId, appended, historyFile, memoryFile>>
        /\ UNCHANGED restarts /\ OthersUnchanged

\* handleSlashCommand(sess, "/new"): the session's messages are cleared, key and
\* metadata kept. Session has no method for it and version is unexported, so
\* the handler (package agent) assigns the exported field.
ClearMessages ==
    /\ Messages # <<>>
    /\ Messages' = <<>>
    /\ applied' = FALSE
    /\ last' = Op("Clear", TRUE, "")
    /\ UNCHANGED <<Metadata, UpdatedAt, version, Bookkeeping, file, clock, cons,
                   nextId, appended>>
    /\ SameProcess

\* a metadata update: an assignment to the exported Metadata mapping
SetMetadata ==
    \E md \in MetadataValues :
        /\ md # Metadata
        /\ Metadata' = md
        /\ last' = Op("SetMetadata", TRUE, "")
        /\ UNCHANGED <<Messages, UpdatedAt, version, Bookkeeping, file, clock, cons,
                       nextId, appended, applied>>
        /\ SameProcess

\* A restart of the process: Manager.GetOrCreate on an empty cache loads the
\* session from its file (consolidation in flight is gone with the process).
Restart ==
    LET r == Load(file)
    IN  /\ restarts < MaxRestarts
        /\ restarts' = restarts + 1
        /\ r.ok /\ r.found
        /\ Messages' = r.Messages
        /\ Metadata' = r.Metadata
        /\ UpdatedAt' = IF r.hasMeta THEN r.UpdatedAt ELSE Now
        /\ clock' = IF r.hasMeta THEN clock ELSE Now
        /\ version' = 0
        /\ persistedMessages' = Len(r.Messages)
        /\ appendSaves' = 0
        /\ metadataLineCount' = r.metadataLines
        /\ needsCompaction' = (r.metadataLines > appendCompactionMaxMetadataLines)
        /\ cons' = ConsIdle
        /\ appended' = r.Messages
        /\ applied' = FALSE
        /\ last' = Op("Load", TRUE, "")
        /\ UNCHANGED <<file, nextId>>
        /\ OthersUnchanged
        /\ MemoryUnchanged

\* New(key) with no file on disk
SessionInit ==
    /\ Messages = <<>>
    /\ Metadata = 0
    /\ UpdatedAt = 0
    /\ version = 0
    /\ persistedMessages = 0
    /\ appendSaves = 0
    /\ metadataLineCount = 0
    /\ needsCompaction = FALSE
    /\ file = NoFile
    /\ clock = 0
    /\ cons = ConsIdle
    /\ nextId = 1
    /\ appended = <<>>
    /\ applied = FALSE
    /\ restarts = 0
    /\ last = [op |-> "New", ok |-> TRUE, path |-> "", ver |-> 0, keep |-> 0,
               applied |-> FALSE, pre |-> NoPre, appends |-> 0, step |-> "",
               tmp |-> NoFile, window |-> 0, old |-> <<>>, toolsUsed |-> <<>>]

\* a workspace whose memory directory has not been created yet
MemoryInit ==
    /\ memoryFile = NoMemoryFile
    /\ historyFile = NoHistoryFile

(***************************************************************************)
(* Bus: two buffered Go channels, b.in and b.out. A call is a select between *)
(* the channel operation and ctx.Done(); the task stays in the select until  *)
(* one of the two cases can run.                                             *)
(***************************************************************************)
\* the tasks of the gateway that use the bus: two channels publish inbound,
\* the agent loop consumes inbound and publishes outbound, the channel
\* manager's dispatch task consumes outbound
Channels == {"slack", "telegram"}
Tasks == Channels \cup {"loop", "dispatch"}
Dirs == {"in", "out"}
NoBusMsg == [id |-> 0, from |-> "none"]
NoCall == [op |-> "none", status |-> "idle", msg |-> NoBusMsg, err |-> FALSE, delta |-> 0]

\* bus.New(buffer): the capacity of both channels
NewBufferSize(buffer) == IF buffer <= 0 THEN 64 ELSE buffer

\* the channel an operation works on
Dir(op) == IF op \in {"PublishInbound", "ConsumeInbound"} THEN "in" ELSE "out"

\* (mutant) the send case is ready whatever the buffer holds
CanSendAlways(buf) == TRUE
\* case b.in <- msg: ready when the buffer has room
CanSend(buf) == Len(buf) < bufferSize
\* case msg := <-b.in: ready when the buffer holds a message
CanRecv(buf) == Len(buf) > 0
\* The context a task passes to the bus: the Slack handler publishes with
\* context.Background(), every other task with a context derived from the
\* gateway's root context.
UsesBackground(t) == t = "slack"
\* (mutant) the cancellation case is always ready
CtxAlwaysDone(t) == TRUE
\* case <-ctx.Done(): ready when the caller's context is cancelled
CtxIsDone(t) == ~UsesBackground(t) /\ ctxDone

\* (mutant) the message is put at the front of the buffer
ChanSendFront(buf, m) == <<m>> \o buf
\* the buffer after a send / after a receive, and the message received
ChanSend(buf, m) == Append(buf, m)
ChanRecvMsg(buf) == Head(buf)
ChanRecvRest(buf) == Tail(buf)

SessionUnchanged ==
    UNCHANGED sessVars /\ MemoryUnchanged /\ CronUnchanged /\ UNCHANGED <<appVars, toolVars>>

\* a task enters PublishInbound / PublishOutbound with a fresh message
PublishCall(op, t) ==
    /\ bufferSize > 0
    /\ call[t].status # "blocked"
    /\ nextMsg <= MaxPublishes
    /\ call' = [call EXCEPT ![t] = [op |-> op, status |-> "blocked",
                                    msg |-> [id |-> nextMsg, from |-> t],
                                    err |-> FALSE, delta |-> 0]]
    /\ nextMsg' = nextMsg + 1
    /\ UNCHANGED <<requestedBuffer, bufferSize, chanBuf, ctxDone, published, consumed>>
    /\ SessionUnchanged

\* a task enters ConsumeInbound / ConsumeOutbound
ConsumeCall(op, t) ==
    /\ bufferSize > 0
    /\ call[t].status # "blocked"
    /\ call' = [call EXCEPT ![t] = [op |-> op, status |-> "blocked", msg |-> NoBusMsg,
                                    err |-> FALSE, delta |-> 0]]
    /\ UNCHANGED <<requestedBuffer, bufferSize, chanBuf, ctxDone, nextMsg, published, consumed>>
    /\ SessionUnchanged

\* the send case of the select: return nil
PublishSend(op, t) ==
    LET d == Dir(op)
    IN  /\ call[t].op = op /\ call[t].status = "blocked"
        /\ CanSend(chanBuf[d])
        /\ chanBuf' = [chanBuf EXCEPT ![d] = ChanSend(@, call[t].msg)]
        /\ published' = [published EXCEPT ![d] = Append(@, call[t].msg)]
        /\ call' = [call EXCEPT ![t].status = "returned", ![t].err = FALSE,
                                ![t].delta = Len(chanBuf'[d]) - Len(chanBuf[d])]
        /\ UNCHANGED <<requestedBuffer, bufferSize, ctxDone, nextMsg, consumed>>
        /\ SessionUnchanged

\* the receive case of the select: return msg, nil
ConsumeRecv(op, t) ==
    LET d == Dir(op)
    IN  /\ call[t].op = op /\ call[t].status = "blocked"
        /\ CanRecv(chanBuf[d])
        /\ chanBuf' = [chanBuf EXCEPT ![d] = ChanRecvRest(@)]
        /\ consumed' = [consumed EXCEPT ![d] = Append(@, ChanRecvMsg(chanBuf[d]))]
        /\ call' = [call EXCEPT ![t].status = "returned", ![t].err = FALSE,
                                ![t].msg = ChanRecvMsg(chanBuf[d]),
                                ![t].delta = Len(chanBuf'[d]) - Len(chanBuf[d])]
        /\ UNCHANGED <<requestedBuffer, bufferSize, ctxDone, nextMsg, published>>
        /\ SessionUnchanged

\* the ctx.Done() case of the select: return ctx.Err()
SelectCtxDone(op, t) ==
    /\ call[t].op = op /\ call[t].status = "blocked"
    /\ CtxIsDone(t)
    /\ UNCHANGED <<requestedBuffer, bufferSize, chanBuf, ctxDone, nextMsg, published, consumed>>
    /\ call' = [call EXCEPT ![t].status = "returned", ![t].err = TRUE,
                            ![t].delta = Len(chanBuf'[Dir(op)]) - Len(chanBuf[Dir(op)])]
    /\ SessionUnchanged

PublishInbound(t) ==
    PublishCall("PublishInbound", t) \/ PublishSend("PublishInbound", t)
        \/ SelectCtxDone("PublishInbound", t)
PublishOutbound(t) ==
    PublishCall("PublishOutbound", t) \/ PublishSend("PublishOutbound", t)
        \/ SelectCtxDone("PublishOutbound", t)
ConsumeInbound(t) ==
    ConsumeCall("ConsumeInbound", t) \/ ConsumeRecv("ConsumeInbound", t)
        \/ SelectCtxDone("ConsumeInbound", t)
ConsumeOutbound(t) ==
    ConsumeCall("ConsumeOutbound", t) \/ ConsumeRecv("ConsumeOutbound", t)
        \/ SelectCtxDone("ConsumeOutbound", t)

\* signal.NotifyContext: the root context is cancelled
CancelCtx ==
    /\ ~ctxDone
    /\ ctxDone' = TRUE
    /\ UNCHANGED <<requestedBuffer, bufferSize, chanBuf, call, nextMsg, published, consumed>>
    /\ SessionUnchanged

\* bus.New(buffer)
New ==
    \E buffer \in (-1)..MaxBuffer :
        /\ bufferSize = 0
        /\ requestedBuffer' = buffer
        /\ bufferSize' = NewBufferSize(buffer)
        /\ UNCHANGED <<chanBuf, call, ctxDone, nextMsg, published, consumed>>
        /\ SessionUnchanged

\* before bus.New: no channels yet
BusInit ==
    /\ requestedBuffer = 0
    /\ bufferSize = 0
    /\ chanBuf = [d \in Dirs |-> <<>>]
    /\ call = [t \in Tasks |-> NoCall]
    /\ ctxDone = FALSE
    /\ nextMsg = 1
    /\ published = [d \in Dirs |-> <<>>]
    /\ consumed = [d \in Dirs |-> <<>>]

NextBus ==
    \/ New
    \/ \E t \in Channels : PublishInbound(t)
    \/ ConsumeInbound("loop")
    \/ PublishOutbound("loop")
    \/ ConsumeOutbound("dispatch")
    \/ CancelCtx

(***************************************************************************)
(* cron.Service: the job store, the 1-second tick loop and RunNow. Times   *)
(* are milliseconds on a scaled-down clock. A run of a job is the call of  *)
(* the injected trigger callback; it takes time, so its start and its end  *)
(* are two steps.                                                          *)
(***************************************************************************)
\* the last reading of the clock, and the number of trigger invocations in
\* one behaviour
MaxTime == 2
MaxTriggers == 2
\* the period of the job the `every` schedules tried ask for
EveryPeriod == 2

\* the ids Add hands out: two jobs, so that runs of different jobs can meet
JobIds == {"job1", "job2"}
NoSchedule == [kind |-> "none", everyMS |-> 0, expr |-> "", atMS |-> 0]
NoJob == [exists |-> FALSE, enabled |-> FALSE, schedule |-> NoSchedule,
          nextRunAtMS |-> 0, lastRunAtMS |-> 0, runCount |-> 0, failureCount |-> 0]
NoRun == [by |-> "none", start |-> 0]
NoRunNow == [job |-> "", force |-> FALSE, pc |-> "idle", before |-> 0, triggered |-> 0]

\* The cron expressions tried: "*/2 * * * *" with the minute scaled to one
\* unit of the clock, and one that does not parse.
CronExprs == {"*/2 * * * *", "not a cron"}
ParsesAsCron(expr) == expr = "*/2 * * * *"
\* the least time strictly greater than t whose fields satisfy the expression
NextCronMatch(expr, t) == t + 2 - (t % 2)

\* the schedules Add is tried with at time now
Schedules(now) ==
    {[kind |-> "every", everyMS |-> e, expr |-> "", atMS |-> 0] : e \in {-1, 0, EveryPeriod}}
    \cup {[kind |-> "cron", everyMS |-> 0, expr |-> x, atMS |-> 0] : x \in CronExprs}
    \cup {[kind |-> "at", everyMS |-> 0, expr |-> "", atMS |-> a] : a \in (now - 1)..(now + 1)}
    \cup {[kind |-> "unknown", everyMS |-> 0, expr |-> "", atMS |-> 0]}
\* the schedules the jobs that are run are added with
RunSchedules(now) ==
    {[kind |-> "every", everyMS |-> EveryPeriod, expr |-> "", atMS |-> 0],
     [kind |-> "at", everyMS |-> 0, expr |-> "", atMS |-> now + 1]}

\* (mutant) every schedule is accepted
AcceptsAll(sched, now) == TRUE
\* the schedules Add accepts
ValidSchedule(sched, now) ==
    \/ sched.kind = "every" /\ sched.everyMS > 0
    \/ sched.kind = "cron" /\ ParsesAsCron(sched.expr)
    \/ sched.kind = "at" /\ sched.atMS > now

\* (mutant) an `every` job is due again at once
NextRunNoPeriod(sched, now) == now
\* the next run of a schedule, computed at time now
NextRun(sched, now) ==
    IF sched.kind = "every" THEN now + sched.everyMS
    ELSE IF sched.kind = "cron" THEN NextCronMatch(sched.expr, now)
    ELSE sched.atMS

\* (mutant) a run is started whatever is in progress
StartsAlways(j) == TRUE
\* a run of job j can start: none is in progress
CanStart(j) == active[j] = 0

RECURSIVE SumOver(_, _)
SumOver(f, S) ==
    IF S = {} THEN 0 ELSE LET x == CHOOSE x \in S : TRUE IN f[x] + SumOver(f, S \ {x})
\* invocations of trigger so far, over all jobs
TotalTriggers == SumOver(triggers, JobIds)

\* one second (one unit) passes
TimePasses ==
    /\ cronNow < MaxTime
    /\ cronNow' = cronNow + 1
    /\ UNCHANGED <<jobs, active, run, triggers, lastAdd, runNow>>
    /\ UNCHANGED <<sessVars, busVars, memVars, appVars, toolVars>>

\* Add(name, schedule, payload): an error for a schedule that is not valid,
\* else the new job with its next run computed
CronAdd(scheds) ==
    \E sched \in scheds :
        LET ok == ValidSchedule(sched, cronNow)
            free == {j \in JobIds : ~jobs[j].exists}
            id == IF "job1" \in free THEN "job1" ELSE "job2"
            job == [exists |-> TRUE, enabled |-> TRUE, schedule |-> sched,
                    nextRunAtMS |-> NextRun(sched, cronNow), lastRunAtMS |-> 0,
                    runCount |-> 0, failureCount |-> 0]
        IN  /\ free # {}
            /\ jobs' = IF ok THEN [jobs EXCEPT ![id] = job] ELSE jobs
            /\ lastAdd' = [called |-> TRUE, schedule |-> sched, now |-> cronNow,
                           err |-> ~ok, job |-> IF ok THEN job ELSE NoJob]
            /\ UNCHANGED <<cronNow, active, run, triggers, runNow>>
            /\ UNCHANGED <<sessVars, busVars, memVars, appVars, toolVars>>

\* Toggle(id, disable)
CronToggle ==
    \E j \in JobIds, disable \in BOOLEAN :
        /\ jobs[j].exists
        /\ jobs[j].enabled = disable
        /\ jobs' = [jobs EXCEPT ![j].enabled = ~disable]
        /\ UNCHANGED <<cronNow, active, run, triggers, lastAdd, runNow>>
        /\ UNCHANGED <<sessVars, busVars, memVars, appVars, toolVars>>

\* the call of trigger(ctx, job) for job j
StartRun(j, by) ==
    /\ CanStart(j)
    /\ TotalTriggers < MaxTriggers
    /\ active' = [active EXCEPT ![j] = @ + 1]
    /\ run' = [run EXCEPT ![j] = [by |-> by, start |-> cronNow]]
    /\ triggers' = [triggers EXCEPT ![j] = @ + 1]

\* the tick loop finds job j enabled and due, and runs it on a task of its own
TickRun ==
    \E j \in JobIds :
        /\ jobs[j].exists /\ jobs[j].enabled
        /\ jobs[j].nextRunAtMS <= cronNow
        /\ StartRun(j, "tick")
        /\ UNCHANGED <<cronNow, jobs, lastAdd, runNow>>
        /\ UNCHANGED <<sessVars, busVars, memVars, appVars, toolVars>>

\* RunNow(ctx, id, force): the job is run if it is enabled or force is set;
\* a call for a job whose run is in progress waits for that run
RunNowCall ==
    \E j \in JobIds, force \in BOOLEAN :
        /\ runNow.pc # "running"
        /\ jobs[j].exists
        /\ jobs[j].enabled \/ force
        /\ StartRun(j, "RunNow")
        /\ runNow' = [job |-> j, force |-> force, pc |-> "running",
                      before |-> triggers[j], triggered |-> 0]
        /\ UNCHANGED <<cronNow, jobs, lastAdd>>
        /\ UNCHANGED <<sessVars, busVars, memVars, appVars, toolVars>>

\* trigger returned (failed = it returned an error): the run is recorded and
\* the schedule advances; an `at` job is disabled after its one run
FinishRun ==
    \E j \in JobIds, failed \in BOOLEAN :
        /\ active[j] > 0
        /\ active' = [active EXCEPT ![j] = @ - 1]
        /\ jobs' = [jobs EXCEPT
                      ![j].lastRunAtMS = run[j].start,
                      ![j].runCount = @ + 1,
                      ![j].failureCount = IF failed THEN @ + 1 ELSE @,
                      ![j].enabled = IF jobs[j].schedule.kind = "at" THEN FALSE ELSE @,
                      ![j].nextRunAtMS = NextRun(jobs[j].schedule, cronNow)]
        /\ run' = [run EXCEPT ![j] = NoRun]
        /\ runNow' = IF run[j].by = "RunNow" /\ runNow.job = j /\ runNow.pc = "running"
                     THEN [runNow EXCEPT !.pc = "done", !.before = 0,
                                         !.triggered = triggers[j] - runNow.before]
                     ELSE runNow
        /\ UNCHANGED <<cronNow, triggers, lastAdd>>
        /\ UNCHANGED <<sessVars, busVars, memVars, appVars, toolVars>>

\* NewService(path, trigger) on an empty store
CronInit ==
    /\ cronNow = 0
    /\ jobs = [j \in JobIds |-> NoJob]
    /\ active = [j \in JobIds |-> 0]
    /\ run = [j \in JobIds |-> NoRun]
    /\ triggers = [j \in JobIds |-> 0]
    /\ lastAdd = [called |-> FALSE, schedule |-> NoSchedule, now |-> 0, err |-> FALSE,
                  job |-> NoJob]
    /\ runNow = NoRunNow

\* the job store
NextCronAdd ==
    \/ TimePasses
    \/ CronAdd(Schedules(cronNow))
    \/ CronToggle

\* the job store, the tick loop and RunNow
NextCron ==
    \/ TimePasses
    \/ CronAdd(RunSchedules(cronNow))
    \/ CronToggle
    \/ TickRun
    \/ RunNowCall
    \/ FinishRun

(***************************************************************************)
(* agent.Loop: the tool loop of one turn. Each iteration is one LLM call;  *)
(* a result with tool calls is followed by the execution of the tools.     *)
(***************************************************************************)
\* turns in one behaviour, and the largest --max-iters tried besides the default
MaxTurns == 2
MaxItersTried == 2
\* the default of --max-iters
DefaultMaxIters == 20
MaxItersValues == (1..MaxItersTried) \cup {DefaultMaxIters}

\* what LLM.Chat returns: a result without tool calls, one with tool calls,
\* or an error
ChatResults == {"content", "toolCalls", "error"}

NoTurn == [pc |-> "idle", maxIters |-> 0, iters |-> 0, outcome |-> "none",
           reply |-> [kind |-> "none", n |-> 0], toolError |-> FALSE]

\* the fixed message of an exhausted turn: "stopped after N tool iterations"
StoppedAfter(n) == [kind |-> "stopped after N tool iterations", n |-> n]

\* (mutant) the loop goes on whatever the count
IterateAlways(iters, maxIters) == TRUE
\* the loop condition: another iteration is allowed
MayIterate(iters, maxIters) == iters < maxIters

\* an inbound message is taken up: the tool loop starts
StartTurn ==
    \E maxIters \in MaxItersValues :
        /\ turn.pc \in {"idle", "done"}
        /\ turns < MaxTurns
        /\ turns' = turns + 1
        /\ turn' = [NoTurn EXCEPT !.pc = "llm", !.maxIters = maxIters]
        /\ UNCHANGED <<sessVars, busVars, memVars, cronVars, sendVars, slackVars, toolVars>>

\* one iteration: LLM.Chat(messages, toolDefs) and what follows from its result
LLMChat ==
    \E result \in ChatResults :
        /\ turn.pc = "llm"
        /\ MayIterate(turn.iters, turn.maxIters)
        /\ turn' = IF result = "content"
                   THEN [turn EXCEPT !.iters = @ + 1, !.pc = "done", !.outcome = "content",
                                     !.reply = [kind |-> "assistant content", n |-> 0]]
                   ELSE IF result = "error"
                   THEN [turn EXCEPT !.iters = @ + 1, !.pc = "done", !.outcome = "error",
                                     !.reply = [kind |-> "error message", n |-> 0]]
                   ELSE [turn EXCEPT !.iters = @ + 1, !.pc = "tools"]
        /\ UNCHANGED turns
        /\ UNCHANGED <<sessVars, busVars, memVars, cronVars, sendVars, slackVars, toolVars>>

\* the tool calls of the result are executed; a failed tool call is reported
\* as tool output and the loop goes on
ExecuteTools ==
    \E failed \in BOOLEAN :
        /\ turn.pc = "tools"
        /\ turn' = [turn EXCEPT !.pc = "llm", !.toolError = failed]
        /\ UNCHANGED turns
        /\ UNCHANGED <<sessVars, busVars, memVars, cronVars, sendVars, slackVars, toolVars>>

\* the loop condition fails: the fixed message is surfaced
Exhausted ==
    /\ turn.pc = "llm"
    /\ ~MayIterate(turn.iters, turn.maxIters)
    /\ turn' = [turn EXCEPT !.pc = "done", !.outcome = "exhausted",
                            !.reply = StoppedAfter(turn.maxIters)]
    /\ UNCHANGED turns
    /\ UNCHANGED <<sessVars, busVars, memVars, cronVars, sendVars, slackVars, toolVars>>

TurnInit ==
    /\ turn = NoTurn
    /\ turns = 0

TurnStep == LLMChat \/ ExecuteTools \/ Exhausted

NextTurn ==
    \/ StartTurn
    \/ LLMChat
    \/ ExecuteTools
    \/ Exhausted

(***************************************************************************)
(* telegram.Channel.Send and shouldRetryTelegramSend. An error is what the *)
(* code can ask of it: whether errors.Is finds context.Canceled or         *)
(* DeadlineExceeded in it, whether errors.As finds a TooManyRequestsError  *)
(* (and its RetryAfter) or a net.Error (and its Timeout / Temporary), and  *)
(* its text: whether it holds "sendMessage, " and the characters after it. *)
(***************************************************************************)
\* Send calls in one behaviour
MaxSends == 2
\* const maxAttempts
maxAttempts == 3

NoErr == [isNil |-> TRUE, ctx |-> "none", tooMany |-> FALSE, retryAfter |-> 0,
          net |-> "none", marker |-> FALSE, rest |-> <<>>]
\* where an error is found in the chain
CtxKinds == {"none", "canceled", "deadline"}
NetKinds == {"none", "timeout", "temporary", "permanent"}
RetryAfters == {-1, 0, 2}
\* the characters that follow "sendMessage, " in the text
Rests == {<<>>, <<"5", "0">>, <<"5", "0", "3", " ">>, <<"5", "0", "0">>, <<"5", "9", "9">>,
          <<"6", "0", "0">>, <<"4", "9", "9">>, <<"-", "5", "0">>, <<"5", "x", "x">>}
ErrTexts == {[marker |-> TRUE, rest |-> r] : r \in Rests}
                \cup {[marker |-> FALSE, rest |-> <<"5", "0", "3", " ">>]}
TooManys == {[tooMany |-> FALSE, retryAfter |-> 0]}
                \cup {[tooMany |-> TRUE, retryAfter |-> ra] : ra \in RetryAfters}

MkErr(ctx, tm, net, txt) ==
    [isNil |-> FALSE, ctx |-> ctx, tooMany |-> tm.tooMany, retryAfter |-> tm.retryAfter,
     net |-> net, marker |-> txt.marker, rest |-> txt.rest]
\* the errors shouldRetryTelegramSend is tried with
Errors ==
    {MkErr(ctx, tm, net, txt) : ctx \in CtxKinds, tm \in TooManys, net \in NetKinds,
                                txt \in ErrTexts}

PlainText == [marker |-> FALSE, rest |-> <<"5", "0", "3", " ">>]
PlainTooMany == [tooMany |-> FALSE, retryAfter |-> 0]
\* the results of b.SendMessage tried in Send: TooManyRequests with and without
\* RetryAfter, a network timeout, a 503 and a 499 response, a cancelled context
SendErrors ==
    {MkErr("none", [tooMany |-> TRUE, retryAfter |-> 2], "none", PlainText),
     MkErr("none", [tooMany |-> TRUE, retryAfter |-> 0], "none", PlainText),
     MkErr("none", PlainTooMany, "timeout", PlainText),
     MkErr("none", PlainTooMany, "none", [marker |-> TRUE, rest |-> <<"5", "0", "3", " ">>]),
     MkErr("none", PlainTooMany, "none", [marker |-> TRUE, rest |-> <<"4", "9", "9">>]),
     MkErr("canceled", PlainTooMany, "none", PlainText)}
CtxErr == MkErr("canceled", PlainTooMany, "none", PlainText)

IsDigit(c) == c \in {"0", "1", "2", "3", "4", "5", "6", "7", "8", "9"}
DigitValue(c) ==
    CASE c = "0" -> 0 [] c = "1" -> 1 [] c = "2" -> 2 [] c = "3" -> 3 [] c = "4" -> 4
      [] c = "5" -> 5 [] c = "6" -> 6 [] c = "7" -> 7 [] c = "8" -> 8 [] c = "9" -> 9
      [] OTHER -> 0
RECURSIVE DigitsValue(_)
DigitsValue(cs) ==
    IF cs = <<>> THEN 0
    ELSE 10 * DigitsValue(SubSeq(cs, 1, Len(cs) - 1)) + DigitValue(cs[Len(cs)])
AllDigits(cs) == cs # <<>> /\ \A i \in 1..Len(cs) : IsDigit(cs[i])
\* strconv.Atoi: an optional sign, then decimal digits
Atoi(cs) ==
    IF cs # <<>> /\ cs[1] \in {"+", "-"}
    THEN [ok |-> AllDigits(Tail(cs)),
          value |-> IF cs[1] = "-" THEN 0 - DigitsValue(Tail(cs)) ELSE DigitsValue(Tail(cs))]
    ELSE [ok |-> AllDigits(cs), value |-> DigitsValue(cs)]

isTelegram5xxError(err) ==
    IF err.isNil THEN FALSE
    ELSE IF ~err.marker THEN FALSE
    ELSE IF Len(err.rest) < 3 THEN FALSE
    ELSE LET code == Atoi(SubSeq(err.rest, 1, 3))
         IN  IF ~code.ok THEN FALSE ELSE code.value >= 500 /\ code.value <= 599

\* 300ms << min(attempt-1, 4), in milliseconds
telegramSendBackoff(attempt) ==
    LET a == IF attempt < 1 THEN 1 ELSE attempt
        shift == Min(a - 1, 4)
    IN  300 * (2 ^ shift)

NoRetry == [retry |-> FALSE, wait |-> 0]
\* (mutant) the context errors are not looked for
shouldRetryIgnoringCtx(err, attempt) ==
    IF err.isNil THEN NoRetry
    ELSE IF err.tooMany
    THEN [retry |-> TRUE,
          wait |-> IF err.retryAfter > 0 THEN err.retryAfter * 1000
                   ELSE telegramSendBackoff(attempt)]
    ELSE IF err.net \in {"timeout", "temporary"} \/ isTelegram5xxError(err)
    THEN [retry |-> TRUE, wait |-> telegramSendBackoff(attempt)]
    ELSE NoRetry
\* the answer as (retry, wait in milliseconds)
shouldRetryTelegramSend(err, attempt) ==
    IF err.isNil THEN NoRetry
    ELSE IF err.ctx \in {"canceled", "deadline"} THEN NoRetry
    ELSE IF err.tooMany
    THEN [retry |-> TRUE,
          wait |-> IF err.retryAfter > 0 THEN err.retryAfter * 1000
                   ELSE telegramSendBackoff(attempt)]
    ELSE IF err.net \in {"timeout", "temporary"}
    THEN [retry |-> TRUE, wait |-> telegramSendBackoff(attempt)]
    ELSE IF isTelegram5xxError(err)
    THEN [retry |-> TRUE, wait |-> telegramSendBackoff(attempt)]
    ELSE NoRetry

\* a direct call of shouldRetryTelegramSend
ShouldRetryCall ==
    \E err \in Errors \cup {NoErr}, attempt \in 1..maxAttempts :
        /\ retryCall' = [called |-> TRUE, err |-> err, attempt |-> attempt,
                         answer |-> shouldRetryTelegramSend(err, attempt)]
        /\ UNCHANGED <<send, sendCtx, sends>>
        /\ UNCHANGED <<sessVars, busVars, memVars, cronVars, turnVars, slackVars, toolVars>>

NoSend == [pc |-> "idle", attempt |-> 0, attempts |-> 0, err |-> NoErr, how |-> "none",
           wait |-> 0]
\* what Send is called with: a message to send, one with blank content, one
\* with an empty chat id, and a message while the bot is not connected
SendInputs == {"message", "blank content", "empty chat id", "not connected"}

\* (mutant) no attempt is the last one
NeverLastAttempt(attempt) == FALSE
\* attempt == maxAttempts
LastAttempt(attempt) == attempt = maxAttempts

\* Send(ctx, msg) up to the first attempt
SendCall ==
    \E input \in SendInputs :
        /\ send.pc \in {"idle", "returned"}
        /\ sends < MaxSends
        /\ sends' = sends + 1
        /\ send' = IF input = "message"
                   THEN [NoSend EXCEPT !.pc = "attempting", !.attempt = 1]
                   ELSE [NoSend EXCEPT !.pc = "returned", !.how = input]
        /\ UNCHANGED <<sendCtx, retryCall>>
        /\ UNCHANGED <<sessVars, busVars, memVars, cronVars, turnVars, slackVars, toolVars>>

\* b.SendMessage(ctx, params) returned, and what the loop does with its result
SendAttempt ==
    \E err \in SendErrors \cup {NoErr} :
        LET r == shouldRetryTelegramSend(err, send.attempt)
        IN  /\ send.pc = "attempting"
            /\ send' = IF err.isNil
                       THEN [send EXCEPT !.pc = "returned", !.attempts = @ + 1,
                                         !.err = NoErr, !.how = "sent"]
                       ELSE IF ~r.retry \/ LastAttempt(send.attempt)
                       THEN [send EXCEPT !.pc = "returned", !.attempts = @ + 1,
                                         !.err = err, !.how = "error"]
                       ELSE [send EXCEPT !.pc = "waiting", !.attempts = @ + 1,
                                         !.err = err, !.wait = r.wait]
            /\ UNCHANGED <<sendCtx, sends, retryCall>>
            /\ UNCHANGED <<sessVars, busVars, memVars, cronVars, turnVars, slackVars, toolVars>>

\* case <-t.C: the timer fires while Send is blocked in the select
WaitTimer ==
    /\ send.pc = "waiting"
    /\ ~sendCtx
    /\ send' = [send EXCEPT !.pc = "attempting", !.attempt = @ + 1]
    /\ UNCHANGED <<sendCtx, sends, retryCall>>
    /\ UNCHANGED <<sessVars, busVars, memVars, cronVars, turnVars, slackVars, toolVars>>

\* case <-ctx.Done(): return ctx.Err()
WaitCtxDone ==
    /\ send.pc = "waiting"
    /\ sendCtx
    /\ send' = [send EXCEPT !.pc = "returned", !.err = CtxErr, !.how = "ctx"]
    /\ UNCHANGED <<sendCtx, sends, retryCall>>
    /\ UNCHANGED <<sessVars, busVars, memVars, cronVars, turnVars, slackVars, toolVars>>

\* the caller's context is cancelled
SendCtxCancel ==
    /\ ~sendCtx
    /\ send.pc # "idle"
    /\ sendCtx' = TRUE
    /\ UNCHANGED <<send, sends, retryCall>>
    /\ UNCHANGED <<sessVars, busVars, memVars, cronVars, turnVars, slackVars, toolVars>>

SendInit ==
    /\ send = NoSend
    /\ sendCtx = FALSE
    /\ sends = 0
    /\ retryCall = [called |-> FALSE, err |-> NoErr, attempt |-> 0, answer |-> NoRetry]

SendStep == SendAttempt \/ WaitTimer \/ WaitCtxDone

NextSend ==
    \/ SendCall
    \/ SendAttempt
    \/ WaitTimer
    \/ WaitCtxDone
    \/ SendCtxCancel

NextRetry == ShouldRetryCall

(***************************************************************************)
(* slack.Channel: the Events API endpoint. EventsHandler answers one HTTP  *)
(* request; for an acknowledged event it starts handleEvent in a goroutine *)
(* of its own, which publishes to the bus with context.Background().       *)
(* A signature is what was signed and with which key; the HMAC comparison  *)
(* of Ensure succeeds when both are those of the request and the channel.  *)
(***************************************************************************)
MaxRequests == 2

StatusOK == 200
StatusBadRequest == 400
StatusForbidden == 403
StatusMethodNotAllowed == 405
StatusInternalServerError == 500

\* config.SlackConfig.SigningSecret: not configured, or configured
SigningSecrets == {"", "s3cret"}
\* the keys requests are signed with
SigningKeys == {"s3cret", "forged"}
\* request bodies: not JSON, the URL verification handshake, a user's message,
\* a bot's message
Bodies == {"garbage", "url_verification", "message", "bot message"}
\* the challenge of the URL verification payload
Challenge == "xyz"

\* X-Slack-Signature over "v0:<timestamp>:<body>" under a key
Sig(key, body) == [kind |-> "hmac", key |-> key, body |-> body]
\* no X-Slack-Signature header, and one that is not hexadecimal
NoSig == [kind |-> "missing", key |-> "", body |-> ""]
BadHexSig == [kind |-> "not hex", key |-> "", body |-> ""]
Signatures(body) ==
    {NoSig, BadHexSig}
        \cup {Sig(k, b) : k \in SigningKeys, b \in {body, "message"}}
\* X-Slack-Request-Timestamp: absent, within five minutes of now, older
Timestamps == {"", "fresh", "stale"}

HttpRequest(method, readable, sig, ts, body) ==
    [method |-> method, readable |-> readable, signature |-> sig, timestamp |-> ts,
     body |-> body]
\* the requests tried: a GET, a POST whose body cannot be read, and POSTs of
\* every body under every signature (with a fresh timestamp) and under a
\* right signature with a missing or stale timestamp
HttpRequests ==
    {HttpRequest("GET", TRUE, Sig("s3cret", "message"), "fresh", "message"),
     HttpRequest("POST", FALSE, Sig("s3cret", "message"), "fresh", "message")}
        \cup {HttpRequest("POST", TRUE, s, "fresh", b) :
                  s \in Signatures("message") \cup Signatures("url_verification"),
                  b \in Bodies}
        \cup {HttpRequest("POST", TRUE, Sig("s3cret", "message"), ts, "message") :
                  ts \in Timestamps}

\* slack.NewSecretsVerifier(r.Header, secret) returns no error: both headers
\* are present, the signature is hexadecimal and the timestamp is recent
NewSecretsVerifier(q) ==
    /\ q.signature.kind = "hmac"
    /\ q.timestamp = "fresh"

\* (mutant) the comparison is not made
EnsureSkipped(q, secret) == TRUE
\* verifier.Write(body); verifier.Ensure() returns no error: the HMAC of the
\* received body under the channel's secret equals the signature
Ensure(q, secret) == q.signature = Sig(secret, q.body)

\* slackevents.ParseEvent returns no error
ParseEvent(body) == body # "garbage"

NoResponse == [status |-> 0, body |-> ""]
Response(status, body) == [status |-> status, body |-> body]

\* the response EventsHandler writes to request q
Respond(q, secret) ==
    IF q.method # "POST" THEN Response(StatusMethodNotAllowed, "")
    ELSE IF secret = ""
    THEN Response(StatusInternalServerError, "slack signingSecret not configured")
    ELSE IF ~q.readable THEN Response(StatusBadRequest, "")
    ELSE IF ~NewSecretsVerifier(q) THEN Response(StatusBadRequest, "")
    ELSE IF ~Ensure(q, secret) THEN Response(StatusForbidden, "")
    ELSE IF ~ParseEvent(q.body) THEN Response(StatusBadRequest, "")
    ELSE IF q.body = "url_verification" THEN Response(StatusOK, Challenge)
    ELSE Response(StatusOK, "ok")

\* EventsHandler reaches "go c.handleEvent(...)"
StartsHandleEvent(q, secret) ==
    Respond(q, secret) = Response(StatusOK, "ok")

\* handleEvent reaches PublishInbound: a callback event with a message of a
\* user (no bot id, no subtype) with user, channel and text, from an allowed
\* sender
PassesFilter(body) == body = "message"

NoRequest == [q |-> HttpRequest("", FALSE, NoSig, "", ""), resp |-> NoResponse,
              pc |-> "none", msg |-> 0]

\* slack.New(cfg, b)
SlackNew ==
    \E secret \in SigningSecrets :
        /\ bufferSize > 0
        /\ ~slackChan.created
        /\ slackChan' = [created |-> TRUE, signingSecret |-> secret]
        /\ UNCHANGED <<req, nreq>>
        /\ UNCHANGED <<sessVars, busVars, memVars, cronVars, turnVars, sendVars, toolVars>>

\* the handler function, from the request to its return
EventsHandler ==
    \E q \in HttpRequests :
        /\ slackChan.created
        /\ nreq < MaxRequests
        /\ nreq' = nreq + 1
        /\ req' = [req EXCEPT ![nreq + 1] =
                      [q |-> q, resp |-> Respond(q, slackChan.signingSecret),
                       pc |-> IF StartsHandleEvent(q, slackChan.signingSecret)
                              THEN "handleEvent" ELSE "none",
                       msg |-> 0]]
        /\ UNCHANGED slackChan
        /\ UNCHANGED <<sessVars, busVars, memVars, cronVars, turnVars, sendVars, toolVars>>

\* handleEvent up to its return or to its call of PublishInbound
HandleEvent(r) ==
    /\ req[r].pc = "handleEvent"
    /\ req' = [req EXCEPT ![r].pc = IF PassesFilter(req[r].q.body)
                                    THEN "publishing" ELSE "dropped"]
    /\ UNCHANGED <<slackChan, nreq>>
    /\ UNCHANGED <<sessVars, busVars, memVars, cronVars, turnVars, sendVars, toolVars>>

\* PublishInbound(context.Background(), msg) of handleEvent: the send case
\* of the select, the only one that can be taken
HandleEventPublish(r) ==
    /\ req[r].pc = "publishing"
    /\ CanSend(chanBuf["in"])
    /\ chanBuf' = [chanBuf EXCEPT !["in"] = ChanSend(@, [id |-> nextMsg, from |-> "slack"])]
    /\ published' = [published EXCEPT !["in"] = Append(@, [id |-> nextMsg, from |-> "slack"])]
    /\ nextMsg' = nextMsg + 1
    /\ req' = [req EXCEPT ![r].pc = "published", ![r].msg = nextMsg]
    /\ UNCHANGED <<slackChan, nreq>>
    /\ UNCHANGED <<requestedBuffer, bufferSize, call, ctxDone, consumed>>
    /\ UNCHANGED <<sessVars, memVars, cronVars, turnVars, sendVars, toolVars>>

SlackInit ==
    /\ slackChan = [created |-> FALSE, signingSecret |-> ""]
    /\ req = [r \in 1..MaxRequests |-> NoRequest]
    /\ nreq = 0

\* the gateway's HTTP server with the bus and the agent loop's consumer
NextSlack ==
    \/ New
    \/ SlackNew
    \/ EventsHandler
    \/ \E r \in 1..MaxRequests : HandleEvent(r)
    \/ \E r \in 1..MaxRequests : HandleEventPublish(r)
    \/ ConsumeCall("ConsumeInbound", "loop")
    \/ ConsumeRecv("ConsumeInbound", "loop")

(***************************************************************************)
(* Strings as the tools see them: sequences of characters. The operators   *)
(* below are Go's strings, unicode and path/filepath functions (on a POSIX *)
(* host: the separator is "/") and Go's regexp matching.                   *)
(***************************************************************************)
LowerLetters == <<"a", "b", "c", "d", "e", "f", "g", "h", "i", "j", "k", "l", "m", "n", "o", "p", "q", "r", "s", "t", "u", "v", "w", "x", "y", "z">>
UpperLetters == <<"A", "B", "C", "D", "E", "F", "G", "H", "I", "J", "K", "L", "M", "N", "O", "P", "Q", "R", "S", "T", "U", "V", "W", "X", "Y", "Z">>
Letters == {LowerLetters[i] : i \in 1..26} \cup {UpperLetters[i] : i \in 1..26}
LowerSet == {LowerLetters[i] : i \in 1..26}
\* unicode.IsSpace on the characters used here
SpaceSet == {" ", "\t", "\n", "\r"}
\* the backquote character
Backtick == "backquote"
\* \w of regexp
WordSet == Letters \cup {"0", "1", "2", "3", "4", "5", "6", "7", "8", "9", "_"}

ToLowerChar(c) ==
    IF \E i \in 1..26 : UpperLetters[i] = c
    THEN LowerLetters[CHOOSE i \in 1..26 : UpperLetters[i] = c]
    ELSE c
\* strings.ToLower
ToLower(s) == [i \in 1..Len(s) |-> ToLowerChar(s[i])]

\* sub occurs in s at offset i (0-based)
OccursAt(s, sub, i) ==
    /\ i + Len(sub) <= Len(s)
    /\ \A j \in 1..Len(sub) : s[i + j] = sub[j]
\* strings.Contains, strings.HasPrefix, strings.HasSuffix
Contains(s, sub) == \E i \in 0..Len(s) : OccursAt(s, sub, i)
HasPrefix(s, prefix) == OccursAt(s, prefix, 0)
HasSuffix(s, suffix) == Len(suffix) <= Len(s) /\ OccursAt(s, suffix, Len(s) - Len(suffix))
\* strings.TrimPrefix
TrimPrefix(s, prefix) ==
    IF HasPrefix(s, prefix) THEN SubSeq(s, Len(prefix) + 1, Len(s)) ELSE s

\* the pieces of s between the characters of the set seps, empty ones included
RECURSIVE SplitOn(_, _)
SplitOn(s, seps) ==
    LET at == {i \in 1..Len(s) : s[i] \in seps}
    IN  IF at = {} THEN <<s>>
        ELSE LET i == CHOOSE i \in at : \A j \in at : i <= j
             IN  <<SubSeq(s, 1, i - 1)>> \o SplitOn(SubSeq(s, i + 1, Len(s)), seps)
\* strings.Split(s, "/")
SplitSlash(s) == SplitOn(s, {"/"})
\* strings.Fields
Fields(s) == SelectSeq(SplitOn(s, SpaceSet), LAMBDA f : f # <<>>)

\* strings.Join(parts, "/")
RECURSIVE JoinSlash(_)
JoinSlash(parts) ==
    IF parts = <<>> THEN <<>>
    ELSE IF Len(parts) = 1 THEN parts[1]
    ELSE parts[1] \o <<"/">> \o JoinSlash(Tail(parts))

\* filepath.IsAbs
IsAbs(p) == HasPrefix(p, <<"/">>)

\* filepath.Clean: the components left after dropping "" and "." and applying
\* ".." (dropped at the root, kept at the front of a relative path)
RECURSIVE CleanParts(_, _, _)
CleanParts(parts, out, rooted) ==
    IF parts = <<>> THEN out
    ELSE LET p == Head(parts)
         IN  IF p = <<>> \/ p = <<".">> THEN CleanParts(Tail(parts), out, rooted)
             ELSE IF p = <<".", ".">>
             THEN IF out # <<>> /\ out[Len(out)] # <<".", ".">>
                  THEN CleanParts(Tail(parts), SubSeq(out, 1, Len(out) - 1), rooted)
                  ELSE IF rooted THEN CleanParts(Tail(parts), out, rooted)
                  ELSE CleanParts(Tail(parts), Append(out, p), rooted)
             ELSE CleanParts(Tail(parts), Append(out, p), rooted)
Clean(p) ==
    LET rooted == IsAbs(p)
        body == JoinSlash(CleanParts(SplitSlash(p), <<>>, rooted))
    IN  IF rooted THEN <<"/">> \o body
        ELSE IF body = <<>> THEN <<".">> ELSE body

\* filepath.Join of two elements
Join(a, b) ==
    IF a = <<>> /\ b = <<>> THEN <<>>
    ELSE IF a = <<>> THEN Clean(b)
    ELSE IF b = <<>> THEN Clean(a)
    ELSE Clean(a \o <<"/">> \o b)

\* the process's working directory and the user's home directory
Cwd == <<"/", "s", "r", "v">>
HomeDir == <<"/", "h", "o", "m", "e", "/", "u">>
\* filepath.Abs
Abs(p) == IF IsAbs(p) THEN Clean(p) ELSE Join(Cwd, p)

\* ---- regexp: a regular expression is a tree ----
\* one character of a set, one character outside a set
In(cs) == [k |-> "in", cs |-> cs]
NotIn(cs) == [k |-> "notin", cs |-> cs]
\* . (any character but a newline)
AnyChar == NotIn({"\n"})
\* \b, ^, $
WordBoundary == [k |-> "wb"]
Bol == [k |-> "bol"]
Eol == [k |-> "eol"]
\* concatenation, alternation, r*, r?, r+
Cat(rs) == [k |-> "cat", rs |-> rs]
Alt(rs) == [k |-> "alt", rs |-> rs]
Star(r) == [k |-> "star", r |-> r]
Opt(r) == [k |-> "opt", r |-> r]
Plus(r) == Cat(<<r, Star(r)>>)
\* literal text
Lit(cs) == Cat([j \in 1..Len(cs) |-> In({cs[j]})])

\* the character after position i of s is a word character (positions are
\* 0..Len(s): the number of characters before)
WordAt(s, i) == i >= 0 /\ i < Len(s) /\ s[i + 1] \in WordSet

RECURSIVE Ends(_, _, _), CatEnds(_, _, _, _), StarEnds(_, _, _, _)
\* the positions where a match of re that starts at position i of s may end
Ends(re, s, i) ==
    CASE re.k = "in" -> IF i < Len(s) /\ s[i + 1] \in re.cs THEN {i + 1} ELSE {}
      [] re.k = "notin" -> IF i < Len(s) /\ s[i + 1] \notin re.cs THEN {i + 1} ELSE {}
      [] re.k = "wb" -> IF WordAt(s, i - 1) # WordAt(s, i) THEN {i} ELSE {}
      [] re.k = "bol" -> IF i = 0 THEN {i} ELSE {}
      [] re.k = "eol" -> IF i = Len(s) THEN {i} ELSE {}
      [] re.k = "cat" -> CatEnds(re.rs, 1, s, {i})
      [] re.k = "alt" -> UNION {Ends(re.rs[j], s, i) : j \in 1..Len(re.rs)}
      [] re.k = "opt" -> {i} \cup Ends(re.r, s, i)
      [] re.k = "star" -> StarEnds(re.r, s, {i}, {i})
CatEnds(rs, j, s, from) ==
    IF j > Len(rs) \/ from = {} THEN from
    ELSE CatEnds(rs, j + 1, s, UNION {Ends(rs[j], s, i) : i \in from})
StarEnds(r, s, done, frontier) ==
    LET more == UNION {Ends(r, s, i) : i \in frontier} \ done
    IN  IF more = {} THEN done ELSE StarEnds(r, s, done \cup more, more)

\* Regexp.MatchString
MatchString(re, s) == \E i \in 0..Len(s) : Ends(re, s, i) # {}

\* Regexp.FindAllString for an expression whose first match at a position is
\* its longest one (a fixed head, then a greedy repetition): the leftmost
\* match, as far as it goes, then the matches after it
RECURSIVE FindAllFrom(_, _, _)
FindAllFrom(re, s, from) ==
    LET starts == {i \in from..Len(s) : Ends(re, s, i) # {}}
    IN  IF from > Len(s) \/ starts = {} THEN <<>>
        ELSE LET i == CHOOSE i \in starts : \A j \in starts : i <= j
                 e == CHOOSE e \in Ends(re, s, i) : \A f \in Ends(re, s, i) : f <= e
             IN  <<SubSeq(s, i + 1, e)>>
                     \o FindAllFrom(re, s, IF e > i THEN e ELSE i + 1)
FindAllString(re, s) == FindAllFrom(re, s, 0)

(***************************************************************************)
(* tools: the exec guard (tools/exec_guard.go) and the path policy of      *)
(* tools/tool_exec.go.                                                     *)
(***************************************************************************)
\* r.WorkspaceDir, as in the tests of the guard
WorkspaceDir == <<"/", "t", "m", "p", "/", "w", "s">>
\* paths.ConfigDir(): <home>/.clawlet
ConfigDir == Join(HomeDir, <<".", "c", "l", "a", "w", "l", "e", "t">>)
sensitiveDirNames == <<<<"a", "u", "t", "h">>, <<"w", "h", "a", "t", "s", "a", "p", "p", "-", "a", "u", "t", "h">>>>

\* execDenyPatterns
reRm ==
    Cat(<<WordBoundary, Lit(<<"r", "m">>), Plus(In(SpaceSet)), Lit(<<"-">>), Star(In(LowerSet)),
          Lit(<<"r">>), Star(In(LowerSet)), Opt(Lit(<<"f">>)), Star(In(LowerSet)),
          WordBoundary>>)
reDel ==
    Cat(<<WordBoundary, Lit(<<"d", "e", "l">>), Plus(In(SpaceSet)), Lit(<<"/">>), In({"f", "q"}),
          WordBoundary>>)
reRmdir ==
    Cat(<<WordBoundary, Lit(<<"r", "m", "d", "i", "r">>), Plus(In(SpaceSet)), Lit(<<"/", "s">>), WordBoundary>>)
reDisk ==
    Cat(<<WordBoundary, Alt(<<Lit(<<"f", "o", "r", "m", "a", "t">>), Lit(<<"m", "k", "f", "s">>), Lit(<<"d", "i", "s", "k", "p", "a", "r", "t">>)>>),
          WordBoundary>>)
reDd == Cat(<<WordBoundary, Lit(<<"d", "d">>), Plus(In(SpaceSet)), Lit(<<"i", "f", "=">>)>>)
reDevSd == Cat(<<Lit(<<">">>), Star(In(SpaceSet)), Lit(<<"/", "d", "e", "v", "/", "s", "d">>)>>)
rePower ==
    Cat(<<WordBoundary, Alt(<<Lit(<<"s", "h", "u", "t", "d", "o", "w", "n">>), Lit(<<"r", "e", "b", "o", "o", "t">>), Lit(<<"p", "o", "w", "e", "r", "o", "f", "f">>)>>),
          WordBoundary>>)
reForkBomb ==
    Cat(<<Lit(<<":", "(", ")">>), Star(In(SpaceSet)), Lit(<<"{">>), Star(AnyChar), Lit(<<"}", ";">>),
          Star(In(SpaceSet)), Lit(<<":">>)>>)
execDenyPatterns == <<reRm, reDel, reRmdir, reDisk, reDd, reDevSd, rePower, reForkBomb>>

\* the characters that end a path in rePosixAbs and reHomeAbs
PathEnd == {" ", "\t", "\r", "\n", "\"", "'", Backtick}
reHomeToken ==
    Cat(<<Alt(<<Bol, In(SpaceSet)>>), Lit(<<"~">>), Alt(<<Lit(<<"/">>), In(SpaceSet), Eol>>)>>)
rePosixAbs ==
    Cat(<<Alt(<<Bol, In(SpaceSet \cup {"\"", "'", "(", "=", ",", ":", ">", "<"})>>),
          Lit(<<"/">>), Star(NotIn(PathEnd))>>)
reHomeAbs == Cat(<<Lit(<<"~", "/">>), Plus(NotIn(PathEnd))>>)
reWinAbs ==
    Cat(<<In(Letters), Lit(<<":", "\\">>), Plus(NotIn({"\\", "\"", "'"} \cup SpaceSet))>>)

\* (mutant) a lone & is not looked for
containsNoAmpersand(s) == FALSE
containsSingleAmpersand(s) ==
    \E i \in 1..Len(s) :
        /\ s[i] = "&"
        /\ ~(i > 1 /\ s[i - 1] = "&")
        /\ ~(i + 1 <= Len(s) /\ s[i + 1] = "&")

hasToken(command, token) ==
    \E i \in 1..Len(Fields(command)) :
        \/ Fields(command)[i] = token
        \/ HasSuffix(Fields(command)[i], <<"/">> \o token)

expandHomePath(path) ==
    IF ~HasPrefix(path, <<"~", "/">>) THEN path
    ELSE Join(HomeDir, TrimPrefix(path, <<"~", "/">>))

isSameOrChildPath(path, root) ==
    \/ Clean(path) = Clean(root)
    \/ HasPrefix(Clean(path), Clean(root) \o <<"/">>)

blockedSensitivePaths ==
    [i \in 1..Len(sensitiveDirNames) |-> Clean(Join(ConfigDir, sensitiveDirNames[i]))]

\* (mutant) only the root is blocked
onlyRootBlocked(abs) == Clean(abs) # <<"/">>
\* ensurePathAllowedByPolicy(abs) returns nil
ensurePathAllowedByPolicy(abs) ==
    /\ Clean(abs) # <<"/">>
    /\ \A i \in 1..Len(blockedSensitivePaths) :
           ~isSameOrChildPath(Clean(abs), blockedSensitivePaths[i])

\* the second submatch of each match of rePosixAbs: the path without the
\* character before it
posixPaths(cmd) ==
    LET ms == FindAllString(rePosixAbs, cmd)
    IN  [i \in 1..Len(ms) |-> IF ms[i][1] = "/" THEN ms[i] ELSE Tail(ms[i])]

\* isWithin of guardExecCommand
isWithin(p, wsAbs) ==
    \/ Clean(p) = wsAbs
    \/ HasPrefix(Clean(p), wsAbs \o <<"/">>)

\* (mutant) paths are checked as in unrestricted mode
pathsVerdictUnrestricted(raws, wsAbs, restrict) == ""
\* the loop over the paths found in the command
RECURSIVE pathsVerdict(_, _, _)
pathsVerdict(raws, wsAbs, restrict) ==
    IF raws = <<>> THEN ""
    ELSE LET raw == expandHomePath(TrimSpace(Head(raws)))
         IN  IF TrimSpace(Head(raws)) = <<>> THEN pathsVerdict(Tail(raws), wsAbs, restrict)
             ELSE IF ~ensurePathAllowedByPolicy(raw)
             THEN "Error: Command blocked by safety guard (sensitive path is not allowed)"
             ELSE IF ~restrict THEN pathsVerdict(Tail(raws), wsAbs, restrict)
             ELSE IF isWithin(raw, wsAbs) THEN pathsVerdict(Tail(raws), wsAbs, restrict)
             ELSE "Error: Command blocked by safety guard (path outside workspace)"

guardExecCommand(command, workspaceDir, restrict) ==
    LET cmd == TrimSpace(command)
        lower == ToLower(cmd)
    IN  IF cmd = <<>> THEN ""
        ELSE IF Contains(cmd, <<Backtick>>) \/ Contains(cmd, <<"$", "(">>) \/ Contains(cmd, <<"$", "{">>)
                \/ Contains(cmd, <<"<", "(">>) \/ Contains(cmd, <<">", "(">>)
        THEN "Error: Command blocked by safety guard (unsafe shell expansion detected)"
        ELSE IF Contains(cmd, <<";">>) \/ Contains(cmd, <<"\n">>)
        THEN "Error: Command blocked by safety guard (command chaining detected)"
        ELSE IF Contains(cmd, <<">">>)
        THEN "Error: Command blocked by safety guard (redirection is not allowed)"
        ELSE IF containsSingleAmpersand(cmd)
        THEN "Error: Command blocked by safety guard (background chaining detected)"
        ELSE IF hasToken(cmd, <<"t", "e", "e">>)
        THEN "Error: Command blocked by safety guard (tee is not allowed)"
        ELSE IF \E i \in 1..Len(execDenyPatterns) : MatchString(execDenyPatterns[i], lower)
        THEN "Error: Command blocked by safety guard (dangerous pattern detected)"
        ELSE IF restrict /\ (Contains(cmd, <<".", ".", "/">>) \/ Contains(cmd, <<".", ".", "\\">>))
        THEN "Error: Command blocked by safety guard (path traversal detected)"
        ELSE IF restrict /\ MatchString(reHomeToken, cmd)
        THEN "Error: Command blocked by safety guard (path outside workspace)"
        ELSE pathsVerdict(FindAllString(reWinAbs, cmd) \o posixPaths(cmd)
                              \o FindAllString(reHomeAbs, cmd),
                          Clean(Abs(workspaceDir)), restrict)

(***************************************************************************)
(* The exec tool (Registry.exec) and the commands it is called with. A     *)
(* command is a head, a glue and an argument, with white space around it;  *)
(* its text is what the tool receives.                                     *)
(***************************************************************************)
Arg(kind, text) == [kind |-> kind, text |-> text]
\* arguments with shell constructs the guard looks for
UnsafeArgs ==
    {Arg("expansion", <<Backtick, "w", "h", "o", "a", "m", "i", Backtick>>), Arg("expansion", <<"$", "(", "w", "h", "o", "a", "m", "i", ")">>),
     Arg("expansion", <<"$", "{", "H", "O", "M", "E", "}">>), Arg("expansion", <<"<", "(", "l", "s", ")">>),
     Arg("expansion", <<">", "(", "l", "s", ")">>),
     Arg("chaining", <<"h", "i", ";", " ", "w", "h", "o", "a", "m", "i">>), Arg("chaining", <<"h", "i", "\n", "w", "h", "o", "a", "m", "i">>),
     Arg("redirection", <<"h", "i", " ", ">", " ", "o", "u", "t", ".", "t", "x", "t">>), Arg("redirection", <<"h", "i", " ", ">", ">", "o", "u", "t", ".", "t", "x", "t">>),
     Arg("background", <<"h", "i", " ", "&", " ", "w", "h", "o", "a", "m", "i">>), Arg("background", <<"h", "i", "&">>),
     Arg("tee", <<"t", "e", "e", " ", "o", "u", "t", ".", "t", "x", "t">>), Arg("tee", <<"/", "u", "s", "r", "/", "b", "i", "n", "/", "t", "e", "e", " ", "o", "u", "t", ".", "t", "x", "t">>),
     Arg("danger", <<"r", "m", " ", "-", "r", "f", " ", "/">>), Arg("danger", <<"r", "m", " ", "-", "r", " ", ".", "/", "f", "o", "o">>), Arg("danger", <<"r", "m", " ", "-", "f", "r", " ", "x">>),
     Arg("danger", <<"R", "M", " ", " ", "-", "R", "f", " ", "x">>), Arg("danger", <<"d", "e", "l", " ", "/", "f", " ", "x">>), Arg("danger", <<"d", "e", "l", " ", "/", "q", " ", "x">>),
     Arg("danger", <<"r", "m", "d", "i", "r", " ", "/", "s", " ", "x">>), Arg("danger", <<"f", "o", "r", "m", "a", "t", " ", "c">>), Arg("danger", <<"m", "k", "f", "s">>),
     Arg("danger", <<"d", "i", "s", "k", "p", "a", "r", "t">>), Arg("danger", <<"d", "d", " ", "i", "f", "=", "/", "d", "e", "v", "/", "z", "e", "r", "o", " ", "o", "f", "=", "/", "d", "e", "v", "/", "n", "u", "l", "l">>),
     Arg("danger", <<"s", "h", "u", "t", "d", "o", "w", "n", " ", "n", "o", "w">>), Arg("danger", <<"r", "e", "b", "o", "o", "t">>), Arg("danger", <<"p", "o", "w", "e", "r", "o", "f", "f">>),
     Arg("danger", <<":", "(", ")", "{", " ", ":", "|", ":", "&", " ", "}", ";", ":">>)}
\* arguments that are paths, by where the path lies
PathArgs ==
    {Arg("outside", <<"/", "e", "t", "c", "/", "h", "o", "s", "t", "s">>), Arg("outside", <<"/", "u", "s", "r", "/", "b", "i", "n", "/", "w", "c">>),
     Arg("outside", <<"/", "t", "m", "p", "/", "w", "s", "2", "/", "a", ".", "t", "x", "t">>), Arg("outside", <<"/", "h", "o", "m", "e", "/", "u", "/", ".", "c", "l", "a", "w", "l", "e", "t", "/", "c", "o", "n", "f", "i", "g", ".", "j", "s", "o", "n">>),
     Arg("root", <<"/">>),
     Arg("windows", <<"C", ":", "\\", "W", "i", "n", "d", "o", "w", "s", "\\", "x">>),
     Arg("home", <<"~", "/", "n", "o", "t", "e", "s", ".", "t", "x", "t">>),
     Arg("traversal", <<".", ".", "/", "s", "e", "c", "r", "e", "t", "s", ".", "t", "x", "t">>), Arg("traversal", <<"s", "u", "b", "/", ".", ".", "/", ".", ".", "/", "x">>),
     Arg("inside", <<"/", "t", "m", "p", "/", "w", "s", "/", "a", ".", "t", "x", "t">>), Arg("inside", <<"/", "t", "m", "p", "/", "w", "s">>),
     Arg("relative", <<".", "/", "h", "e", "l", "l", "o", ".", "t", "x", "t">>), Arg("relative", <<"s", "u", "b", "/", "a", ".", "t", "x", "t">>),
     Arg("relative", <<".", "/", ".", ".", ".">>),
     Arg("sensitive", <<"/", "h", "o", "m", "e", "/", "u", "/", ".", "c", "l", "a", "w", "l", "e", "t", "/", "a", "u", "t", "h", "/", "o", "p", "e", "n", "a", "i", "-", "c", "o", "d", "e", "x", ".", "j", "s", "o", "n">>),
     Arg("sensitive", <<"/", "h", "o", "m", "e", "/", "u", "/", ".", "c", "l", "a", "w", "l", "e", "t", "/", "w", "h", "a", "t", "s", "a", "p", "p", "-", "a", "u", "t", "h">>),
     Arg("sensitive", <<"/", "h", "o", "m", "e", "/", "u", "/", ".", "c", "l", "a", "w", "l", "e", "t", "/", "x", "/", ".", ".", "/", "a", "u", "t", "h", "/", "k", "e", "y">>),
     Arg("sensitive home", <<"~", "/", ".", "c", "l", "a", "w", "l", "e", "t", "/", "w", "h", "a", "t", "s", "a", "p", "p", "-", "a", "u", "t", "h", "/", "s", "e", "s", "s", "i", "o", "n", ".", "d", "b">>),
     Arg("sensitive home", <<"~", "/", ".", "c", "l", "a", "w", "l", "e", "t", "/", "a", "u", "t", "h">>)}
\* harmless arguments
PlainArgs == {Arg("plain", <<"h", "e", "l", "l", "o">>), Arg("plain", <<"a", " ", "&", "&", " ", "b">>), Arg("plain", <<"s", "t", "e", "e", "r">>),
              Arg("plain", <<>>)}
Args == UnsafeArgs \cup PathArgs \cup PlainArgs

Heads == {<<"c", "a", "t">>, <<"g", "o", " ", "t", "e", "s", "t">>}
\* how the argument follows the head: as the next word, after a pipe or &&,
\* right after an option letter, after "=" of a long option
WordGlues == {<<" ">>, <<" ", "-", "-", "f", "i", "l", "e", "=">>}
Glues == WordGlues \cup {<<"|">>, <<"&", "&">>, <<" ", "-", "C">>}
\* white space before and after the command
Blanks == {<<>>, <<"\n">>, <<" ", " ">>}

Command(lead, head, glue, arg, trail) ==
    [lead |-> lead, head |-> head, glue |-> glue, arg |-> arg, trail |-> trail]
\* the commands tried: every head, glue and argument, and white space around
\* the commands whose argument is the next word
Commands ==
    {Command(<<>>, h, g, a, <<>>) : h \in Heads, g \in Glues, a \in Args}
        \cup {Command(l, <<"c", "a", "t">>, <<" ">>, a, t) : l \in Blanks, a \in Args, t \in Blanks}
        \cup {Command(l, <<>>, <<>>, Arg("blank", <<>>), <<>>) : l \in Blanks}
\* the string passed to the tool
Text(c) == c.lead \o c.head \o c.glue \o c.arg.text \o c.trail

NoExec == [pc |-> "idle", command |-> Command(<<>>, <<>>, <<>>, Arg("blank", <<>>), <<>>),
           restrict |-> FALSE, out |-> "", err |-> "", ran |-> FALSE]

\* Registry.exec(ctx, command) with r.RestrictToWorkspace = restrict, up to
\* its return; "ran" says that sh -lc command was started
ExecCall ==
    \E c \in Commands, restrict \in BOOLEAN :
        LET msg == guardExecCommand(Text(c), WorkspaceDir, restrict)
        IN  /\ execCall.pc = "idle"
            /\ execCall' =
                   IF TrimSpace(Text(c)) = <<>>
                   THEN [pc |-> "returned", command |-> c, restrict |-> restrict,
                         out |-> "", err |-> "command is empty", ran |-> FALSE]
                   ELSE IF msg # ""
                   THEN [pc |-> "returned", command |-> c, restrict |-> restrict,
                         out |-> msg, err |-> "", ran |-> FALSE]
                   ELSE [pc |-> "returned", command |-> c, restrict |-> restrict,
                         out |-> "exit=0", err |-> "", ran |-> TRUE]
            /\ UNCHANGED <<pathCall, hostCall, envCall, regCall, allowCall, slashCall,
                           writeCall, searchCall, mgr>>
            /\ AppUnchanged

\* the caller takes the result
ExecReturn ==
    /\ execCall.pc = "returned"
    /\ execCall' = NoExec
    /\ UNCHANGED <<pathCall, hostCall, envCall, regCall, allowCall, slashCall,
                   writeCall, searchCall, mgr>>
    /\ AppUnchanged

ExecInit == execCall = NoExec

NextExec == ExecCall \/ ExecReturn

(***************************************************************************)
(* The file tools of tools/tool_exec.go: resolvePath and the files that    *)
(* read_file, write_file, edit_file, edit_file_replace and list_dir touch, *)
(* on a file system with symbolic links in the workspace.                  *)
(***************************************************************************)
\* the NUL character
Nul == "nul"

\* the directories, files and symbolic links of the host
FsDirs == {<<"/">>, <<"/", "t", "m", "p">>, <<"/", "t", "m", "p", "/", "w", "s">>, <<"/", "t", "m", "p", "/", "w", "s", "/", "s", "u", "b">>, <<"/", "e", "t", "c">>, <<"/", "h", "o", "m", "e">>, <<"/", "h", "o", "m", "e", "/", "u">>,
           <<"/", "h", "o", "m", "e", "/", "u", "/", ".", "c", "l", "a", "w", "l", "e", "t">>, <<"/", "h", "o", "m", "e", "/", "u", "/", ".", "c", "l", "a", "w", "l", "e", "t", "/", "a", "u", "t", "h">>}
FsFiles == {<<"/", "t", "m", "p", "/", "w", "s", "/", "a", ".", "t", "x", "t">>, <<"/", "t", "m", "p", "/", "w", "s", "/", "s", "u", "b", "/", "b", ".", "t", "x", "t">>, <<"/", "e", "t", "c", "/", "h", "o", "s", "t", "s">>,
            <<"/", "h", "o", "m", "e", "/", "u", "/", ".", "c", "l", "a", "w", "l", "e", "t", "/", "a", "u", "t", "h", "/", "k", "e", "y">>, <<"/", "h", "o", "m", "e", "/", "u", "/", "n", "o", "t", "e", "s", ".", "t", "x", "t">>}
FsLinks == {<<<<"/", "t", "m", "p", "/", "w", "s", "/", "o", "u", "t">>, <<"/", "e", "t", "c">>>>, <<<<"/", "t", "m", "p", "/", "w", "s", "/", "i", "n">>, <<"/", "t", "m", "p", "/", "w", "s", "/", "s", "u", "b">>>>,
            <<<<"/", "t", "m", "p", "/", "w", "s", "/", "d", "a", "n", "g", "l", "i", "n", "g">>, <<"/", "e", "t", "c", "/", "n", "o", "n", "e">>>>,
            <<<<"/", "t", "m", "p", "/", "w", "s", "/", "s", "e", "c", "r", "e", "t">>, <<"/", "h", "o", "m", "e", "/", "u", "/", ".", "c", "l", "a", "w", "l", "e", "t", "/", "a", "u", "t", "h">>>>}
IsLink(p) == \E l \in FsLinks : l[1] = p
LinkTarget(p) == (CHOOSE l \in FsLinks : l[1] = p)[2]

\* the components of a path
Parts(p) == SelectSeq(SplitSlash(p), LAMBDA c : c # <<>>)
\* filepath.Dir and filepath.Base of a clean absolute path (PathDir, PathBase)
PathDir(p) ==
    IF Parts(p) = <<>> THEN <<"/">>
    ELSE <<"/">> \o JoinSlash(SubSeq(Parts(p), 1, Len(Parts(p)) - 1))
PathBase(p) == IF Parts(p) = <<>> THEN <<"/">> ELSE Parts(p)[Len(Parts(p))]

\* the walk of the kernel along the components of a path, from directory
\* cur: links are followed; with create, missing directories are made
RECURSIVE Walk(_, _, _, _)
Walk(parts, cur, create, made) ==
    IF parts = <<>> THEN [err |-> "", path |-> cur, made |-> made]
    ELSE LET next == Join(cur, Head(parts))
         IN  IF IsLink(next)
             THEN LET t == Walk(Parts(LinkTarget(next)), <<"/">>, FALSE, {})
                  IN  IF t.err # "" THEN [err |-> t.err, path |-> next, made |-> made]
                      ELSE Walk(Tail(parts), t.path, create, made)
             ELSE IF next \in FsDirs \/ next \in made
             THEN Walk(Tail(parts), next, create, made)
             ELSE IF next \in FsFiles
             THEN IF Tail(parts) = <<>> /\ ~create
                  THEN [err |-> "", path |-> next, made |-> made]
                  ELSE [err |-> "not a directory", path |-> next, made |-> made]
             ELSE IF create THEN Walk(Tail(parts), next, create, made \cup {next})
             ELSE [err |-> "not exist", path |-> next, made |-> made]

\* filepath.EvalSymlinks
EvalSymlinks(p) == Walk(Parts(p), <<"/">>, FALSE, {})
\* os.MkdirAll: the directories it makes are in "made"
MkdirAll(p) == Walk(Parts(p), <<"/">>, TRUE, {})
\* os.Lstat(p) finds a symbolic link
LstatIsLink(p) == IsLink(p)

\* F of the value of x, with x computed once
With(x, F(_)) == CHOOSE r \in {F(v) : v \in {x}} : TRUE

hasParentTraversal(path) ==
    \E i \in 1..Len(SplitSlash(path)) : SplitSlash(path)[i] = <<".", ".">>

Ok(path) == [err |-> "", path |-> path]
Err(text) == [err |-> text, path |-> <<>>]

\* Registry.workspaceAbs
workspaceAbs(workspaceDir) ==
    IF Clean(Abs(workspaceDir)) = <<"/">>
    THEN Err("workspace root '/' is not allowed when tools are restricted")
    ELSE Ok(Clean(Abs(workspaceDir)))

\* (mutant) the resolved path is not checked against the workspace
insideAlways(path, root) == TRUE
\* the check of the resolved path against the workspace
resolvedInside(path, root) == isSameOrChildPath(path, root)

\* Registry.resolvePath from the check of the resolved path on
resolveLinks(abs, wsAbs) ==
    With(EvalSymlinks(abs), LAMBDA resolved :
        IF resolved.err = "not exist" THEN Ok(abs)
        ELSE IF resolved.err # "" THEN Err(resolved.err)
        ELSE IF ~ensurePathAllowedByPolicy(Clean(resolved.path))
        THEN Err("path is blocked by safety policy")
        ELSE IF ~resolvedInside(Clean(resolved.path), wsAbs.path)
        THEN Err("path is outside workspace")
        ELSE Ok(Clean(resolved.path)))

\* Registry.resolvePath from the policy check of the absolute path on
resolveAbs(abs, wsAbs, restrict) ==
    IF ~ensurePathAllowedByPolicy(abs) THEN Err("path is blocked by safety policy")
    ELSE IF ~restrict THEN Ok(abs)
    ELSE IF wsAbs.err # "" THEN wsAbs
    ELSE IF abs = wsAbs.path THEN Ok(abs)
    ELSE IF ~isSameOrChildPath(abs, wsAbs.path) THEN Err("path is outside workspace")
    ELSE resolveLinks(abs, wsAbs)

\* the absolute clean form of a path: ~ expanded, relative paths joined to
\* the workspace
absolutePath(path, workspaceDir) ==
    With(IF path = <<"~">> THEN HomeDir
         ELSE IF HasPrefix(path, <<"~", "/">>)
         THEN Join(HomeDir, TrimPrefix(path, <<"~", "/">>))
         ELSE path,
         LAMBDA expanded :
             Abs(IF IsAbs(expanded) THEN Clean(expanded)
                 ELSE Clean(Join(workspaceDir, expanded))))

\* Registry.resolvePath
resolvePath(path, workspaceDir, restrict) ==
    IF TrimSpace(path) = <<>> THEN Err("path is empty")
    ELSE IF \E i \in 1..Len(path) : path[i] = Nul THEN Err("path contains null byte")
    ELSE IF hasParentTraversal(path) THEN Err("path traversal is not allowed")
    ELSE IF Contains(ToLower(path), <<".", ".", "%", "2", "f">>)
            \/ Contains(ToLower(path), <<"%", "2", "f", ".", ".">>)
            \/ Contains(ToLower(path), <<"%", "2", "e", "%", "2", "e">>)
    THEN Err("encoded path traversal is not allowed")
    ELSE With(absolutePath(path, workspaceDir), LAMBDA abs :
             With(workspaceAbs(workspaceDir), LAMBDA wsAbs :
                 resolveAbs(abs, wsAbs, restrict)))

\* what a tool did: the error it returned (or ""), and the files and
\* directories it read, wrote or made
Did(err, touched) == [err |-> err, touched |-> touched]

\* os.ReadFile(abs), os.ReadDir(abs), os.WriteFile(abs) of an existing file
\* or directory: the kernel follows the links
Opens(abs) ==
    With(EvalSymlinks(abs), LAMBDA resolved :
        IF resolved.err = "" THEN Did("", {resolved.path}) ELSE Did(resolved.err, {}))

\* Registry.writeFile once os.MkdirAll(parent) has returned
writeInto(made, abs, wsAbs, restrict) ==
    With(Join(made.path, PathBase(abs)), LAMBDA target :
        IF made.err # "" THEN Did(made.err, made.made)
        ELSE IF restrict /\ wsAbs.err # "" THEN Did(wsAbs.err, made.made)
        ELSE IF restrict /\ ~isSameOrChildPath(made.path, wsAbs.path)
        THEN Did("path is outside workspace", made.made)
        ELSE IF ~ensurePathAllowedByPolicy(target)
        THEN Did("path is blocked by safety policy", made.made)
        ELSE IF LstatIsLink(target)
        THEN Did("refusing to write through symlink", made.made)
        ELSE IF target \in FsDirs THEN Did("is a directory", made.made)
        ELSE Did("", made.made \cup {target}))

\* Registry.writeFile after resolvePath returned abs
writeFile(abs, workspaceDir, restrict) ==
    With(MkdirAll(PathDir(abs)), LAMBDA made :
        With(workspaceAbs(workspaceDir), LAMBDA wsAbs :
            writeInto(made, abs, wsAbs, restrict)))

FileTools == {"read_file", "write_file", "edit_file", "edit_file_replace", "list_dir"}

\* the file tool after resolvePath returned abs
RunFileTool(tool, abs, workspaceDir, restrict) ==
    IF tool = "write_file" THEN writeFile(abs, workspaceDir, restrict)
    ELSE Opens(abs)

\* the paths the tools are called with
ToolPaths ==
    {<<>>, <<" ", " ">>, <<"a", Nul, "b">>, <<".", ".", "/", "x">>, <<"s", "u", "b", "/", ".", ".", "/", "a", ".", "t", "x", "t">>, <<".", ".", "%", "2", "f", "x">>, <<"x", "%", "2", "F", ".", ".">>, <<"%", "2", "e", "%", "2", "E", "/", "x">>,
     <<"a", ".", "t", "x", "t">>, <<"s", "u", "b", "/", "b", ".", "t", "x", "t">>, <<"n", "e", "w", ".", "t", "x", "t">>, <<"s", "u", "b", "/", "n", "e", "w", "/", "d", "e", "e", "p", ".", "t", "x", "t">>, <<"a", ".", ".", "b">>, <<".">>,
     <<"i", "n", "/", "b", ".", "t", "x", "t">>, <<"i", "n", "/", "n", "e", "w", ".", "t", "x", "t">>, <<"o", "u", "t", "/", "h", "o", "s", "t", "s">>, <<"o", "u", "t", "/", "n", "e", "w", ".", "t", "x", "t">>, <<"o", "u", "t", "/", "n", "e", "w", "d", "i", "r", "/", "n", "e", "w", ".", "t", "x", "t">>,
     <<"d", "a", "n", "g", "l", "i", "n", "g">>, <<"s", "e", "c", "r", "e", "t", "/", "k", "e", "y">>, <<"s", "e", "c", "r", "e", "t", "/", "n", "e", "w", ".", "t", "x", "t">>,
     <<"/", "t", "m", "p", "/", "w", "s">>, <<"/", "t", "m", "p", "/", "w", "s", "/", "a", ".", "t", "x", "t">>, <<"/", "t", "m", "p", "/", "w", "s", "2", "/", "x">>, <<"/", "e", "t", "c", "/", "h", "o", "s", "t", "s">>, <<"/">>,
     <<"~">>, <<"~", "/", "n", "o", "t", "e", "s", ".", "t", "x", "t">>, <<"~", "/", ".", "c", "l", "a", "w", "l", "e", "t", "/", "a", "u", "t", "h", "/", "k", "e", "y">>, <<"~", "/", ".", "c", "l", "a", "w", "l", "e", "t", "/", "w", "h", "a", "t", "s", "a", "p", "p", "-", "a", "u", "t", "h", "/", "s", ".", "d", "b">>,
     <<"/", "h", "o", "m", "e", "/", "u", "/", ".", "c", "l", "a", "w", "l", "e", "t", "/", "a", "u", "t", "h", "/", "k", "e", "y">>, <<"/", "h", "o", "m", "e", "/", "u", "/", ".", "c", "l", "a", "w", "l", "e", "t", "/", "a", "u", "t", "h">>, <<"/", "h", "o", "m", "e", "/", "u", "/", ".", "c", "l", "a", "w", "l", "e", "t", "/", "c", "o", "n", "f", "i", "g", ".", "j", "s", "o", "n">>}

NoPathCall == [pc |-> "idle", tool |-> "", path |-> <<>>, restrict |-> FALSE,
               resolved |-> Err(""), err |-> "", touched |-> {}]

\* one call of a file tool, up to its return
FileToolCall ==
    \E tool \in FileTools, p \in ToolPaths, restrict \in BOOLEAN :
        \E r \in {resolvePath(p, WorkspaceDir, restrict)} :
            /\ pathCall.pc = "idle"
            /\ pathCall' =
                   IF r.err # ""
                   THEN [pc |-> "returned", tool |-> tool, path |-> p, restrict |-> restrict,
                         resolved |-> r, err |-> r.err, touched |-> {}]
                   ELSE With(RunFileTool(tool, r.path, WorkspaceDir, restrict), LAMBDA d :
                            [pc |-> "returned", tool |-> tool, path |-> p,
                             restrict |-> restrict, resolved |-> r, err |-> d.err,
                             touched |-> d.touched])
            /\ UNCHANGED <<execCall, hostCall, envCall, regCall, allowCall, slashCall,
                           writeCall, searchCall, mgr>>
            /\ AppUnchanged

\* the caller takes the result
FileToolReturn ==
    /\ pathCall.pc = "returned"
    /\ pathCall' = NoPathCall
    /\ UNCHANGED <<execCall, hostCall, envCall, regCall, allowCall, slashCall,
                   writeCall, searchCall, mgr>>
    /\ AppUnchanged

PathInit == pathCall = NoPathCall

NextPath == FileToolCall \/ FileToolReturn

(***************************************************************************)
(* Registry.writeFile step by step, while another process of the host      *)
(* replaces a file or a directory of the workspace by a symbolic link. The *)
(* links that process made are in writeCall.links; each system call of     *)
(* writeFile sees the file system as it is when the call is made.          *)
(***************************************************************************)
\* the symbolic links of the host once the paths of "swapped" have been
\* replaced by links
LinksWith(swapped) ==
    {<<s.from, s.to>> : s \in swapped}
        \cup {l \in FsLinks : ~\E s \in swapped : s.from = l[1]}

\* the walk of the kernel as in Walk, with the links "links"
RECURSIVE WalkIn(_, _, _, _, _)
WalkIn(links, parts, cur, create, made) ==
    IF parts = <<>> THEN [err |-> "", path |-> cur, made |-> made]
    ELSE LET next == Join(cur, Head(parts))
         IN  IF \E l \in links : l[1] = next
             THEN LET t == WalkIn(links, Parts((CHOOSE l \in links : l[1] = next)[2]),
                                  <<"/">>, FALSE, made)
                  IN  IF t.err # "" THEN [err |-> t.err, path |-> next, made |-> made]
                      ELSE WalkIn(links, Tail(parts), t.path, create, made)
             ELSE IF next \in FsDirs \/ next \in made
             THEN WalkIn(links, Tail(parts), next, create, made)
             ELSE IF next \in FsFiles
             THEN IF Tail(parts) = <<>> /\ ~create
                  THEN [err |-> "", path |-> next, made |-> made]
                  ELSE [err |-> "not a directory", path |-> next, made |-> made]
             ELSE IF create THEN WalkIn(links, Tail(parts), next, create, made \cup {next})
             ELSE [err |-> "not exist", path |-> next, made |-> made]

\* os.WriteFile(target, ...): open(2) with O_WRONLY|O_CREATE|O_TRUNC follows
\* the links of every component, the last one included, and creates the file
\* where the walk ends
osWriteFile(links, target, made) ==
    With(WalkIn(links, Parts(target), <<"/">>, FALSE, made), LAMBDA r :
        IF r.err = "" /\ (r.path \in FsDirs \/ r.path \in made) THEN Did("is a directory", {})
        ELSE IF r.err = "" THEN Did("", {r.path})
        ELSE IF r.err = "not exist" /\ PathBase(r.path) = PathBase(target)
        THEN Did("", {r.path})
        ELSE Did(r.err, {}))

\* the paths write_file is called with, in a restricted registry
WritePaths ==
    {<<"a", ".", "t", "x", "t">>, <<"s", "u", "b", "/", "b", ".", "t", "x", "t">>,
     <<"n", "e", "w", ".", "t", "x", "t">>,
     <<"s", "u", "b", "/", "n", "e", "w", "/", "d", "e", "e", "p", ".", "t", "x", "t">>}
\* what the other process does: it replaces the path "from" (a directory, a
\* file, or nothing) by a symbolic link to "to"
Swap(from, to) == [from |-> from, to |-> to]
Swaps ==
    {Swap(<<"/", "t", "m", "p", "/", "w", "s", "/", "s", "u", "b">>, <<"/", "e", "t", "c">>),
     Swap(<<"/", "t", "m", "p", "/", "w", "s", "/", "s", "u", "b", "/", "b", ".", "t", "x", "t">>,
          <<"/", "e", "t", "c", "/", "h", "o", "s", "t", "s">>),
     Swap(<<"/", "t", "m", "p", "/", "w", "s", "/", "n", "e", "w", ".", "t", "x", "t">>,
          <<"/", "e", "t", "c", "/", "h", "o", "s", "t", "s">>),
     Swap(<<"/", "t", "m", "p", "/", "w", "s", "/", "a", ".", "t", "x", "t">>,
          <<"/", "t", "m", "p", "/", "w", "s", "/", "s", "u", "b", "/", "b", ".", "t", "x", "t">>)}

NoWriteCall == [pc |-> "idle", path |-> <<>>, abs |-> <<>>, made |-> {}, target |-> <<>>,
                links |-> {}, err |-> "", wrote |-> {}]

WriteUnchanged ==
    /\ UNCHANGED <<execCall, pathCall, hostCall, envCall, regCall, allowCall,
                   slashCall, searchCall, mgr>>
    /\ AppUnchanged

\* write_file is called: Registry.writeFile up to the return of resolvePath
WriteFileCall ==
    \E p \in WritePaths :
        \E r \in {resolvePath(p, WorkspaceDir, TRUE)} :
            /\ writeCall.pc = "idle"
            /\ writeCall' =
                   IF r.err # ""
                   THEN [NoWriteCall EXCEPT !.pc = "returned", !.path = p, !.err = r.err]
                   ELSE [NoWriteCall EXCEPT !.pc = "mkdir", !.path = p, !.abs = r.path]
            /\ WriteUnchanged

\* os.MkdirAll(filepath.Dir(abs), 0o755)
WriteMkdirAll ==
    /\ writeCall.pc = "mkdir"
    /\ \E m \in {WalkIn(LinksWith(writeCall.links), Parts(PathDir(writeCall.abs)), <<"/">>,
                        TRUE, {})} :
           writeCall' =
               IF m.err # "" THEN [writeCall EXCEPT !.pc = "returned", !.err = m.err]
               ELSE [writeCall EXCEPT !.pc = "eval", !.made = m.made]
    /\ WriteUnchanged

\* filepath.EvalSymlinks(parent), the check of the resolved parent against
\* the workspace, and the policy check of the target
WriteEvalParent ==
    /\ writeCall.pc = "eval"
    /\ \E e \in {WalkIn(LinksWith(writeCall.links), Parts(PathDir(writeCall.abs)), <<"/">>,
                        FALSE, writeCall.made)} :
           \E target \in {Join(e.path, PathBase(writeCall.abs))} :
               writeCall' =
                   IF e.err # "" THEN [writeCall EXCEPT !.pc = "returned", !.err = e.err]
                   ELSE IF workspaceAbs(WorkspaceDir).err # ""
                   THEN [writeCall EXCEPT !.pc = "returned",
                                          !.err = workspaceAbs(WorkspaceDir).err]
                   ELSE IF ~isSameOrChildPath(e.path, workspaceAbs(WorkspaceDir).path)
                   THEN [writeCall EXCEPT !.pc = "returned",
                                          !.err = "path is outside workspace"]
                   ELSE IF ~ensurePathAllowedByPolicy(target)
                   THEN [writeCall EXCEPT !.pc = "returned",
                                          !.err = "path is blocked by safety policy"]
                   ELSE [writeCall EXCEPT !.pc = "lstat", !.target = target]
    /\ WriteUnchanged

\* os.Lstat(target) and the refusal of a symbolic link
WriteLstat ==
    /\ writeCall.pc = "lstat"
    /\ writeCall' =
           IF \E l \in LinksWith(writeCall.links) : l[1] = writeCall.target
           THEN [writeCall EXCEPT !.pc = "returned",
                                  !.err = "refusing to write through symlink"]
           ELSE [writeCall EXCEPT !.pc = "write"]
    /\ WriteUnchanged

\* os.WriteFile(target, []byte(content), 0o644)
WriteOpen ==
    /\ writeCall.pc = "write"
    /\ \E d \in {osWriteFile(LinksWith(writeCall.links), writeCall.target, writeCall.made)} :
           writeCall' = [writeCall EXCEPT !.pc = "returned", !.err = d.err,
                                          !.wrote = d.touched]
    /\ WriteUnchanged

\* another process replaces a path by a symbolic link while the call runs;
\* "at" is the step of writeFile that comes next
SwapLink ==
    \E s \in Swaps :
        /\ writeCall.pc \in {"mkdir", "eval", "lstat", "write"}
        /\ Cardinality(writeCall.links) < MaxLinkSwaps
        /\ ~\E l \in writeCall.links : l.from = s.from
        /\ writeCall' =
               [writeCall EXCEPT !.links = @ \cup {[from |-> s.from, to |-> s.to,
                                                     at |-> writeCall.pc]}]
        /\ WriteUnchanged

\* the caller takes the result
WriteReturn ==
    /\ writeCall.pc = "returned"
    /\ writeCall' = NoWriteCall
    /\ WriteUnchanged

WriteInit == writeCall = NoWriteCall

NextRace ==
    \/ WriteFileCall
    \/ WriteMkdirAll
    \/ WriteEvalParent
    \/ WriteLstat
    \/ WriteOpen
    \/ SwapLink
    \/ WriteReturn

(***************************************************************************)
(* The web_search tool (tools/tool_web_search.go, tools/brave_format.go):  *)
(* the count it asks Brave for, and the number of results it formats. A    *)
(* call without a count arrives with count 0.                              *)
(***************************************************************************)
\* (mutant) a count above 10 is lowered to 10
searchCountClamped(count) == IF count <= 0 THEN 5 ELSE IF count > 10 THEN 10 ELSE count
\* the count of webSearch and of formatBraveSearchResults:
\* if count <= 0 || count > 10 { count = 5 }
searchCount(count) == IF count <= 0 \/ count > 10 THEN 5 ELSE count

\* formatBraveSearchResults(query, count, body), for a body with
\* "results" results: the number of results in the text returned
formatBraveSearchResults(count, results) ==
    IF results = 0 THEN 0
    ELSE IF results > searchCount(count) THEN searchCount(count)
    ELSE results

NoSearchCall == [pc |-> "idle", count |-> 0, results |-> 0, used |-> 0, formatted |-> 0]

\* Registry.webSearch(ctx, query, count) with an API key and a query, Brave
\* answering with "results" results: "used" is the count of the request
WebSearchCall ==
    \E count \in -1..MaxCountTried, results \in 0..MaxResults :
        /\ searchCall.pc = "idle"
        /\ searchCall' = [pc |-> "returned", count |-> count, results |-> results,
                          used |-> searchCount(count),
                          formatted |-> formatBraveSearchResults(searchCount(count), results)]
        /\ UNCHANGED <<execCall, pathCall, hostCall, envCall, regCall, allowCall,
                       slashCall, writeCall, mgr>>
        /\ AppUnchanged

\* the caller takes the result
WebSearchReturn ==
    /\ searchCall.pc = "returned"
    /\ searchCall' = NoSearchCall
    /\ UNCHANGED <<execCall, pathCall, hostCall, envCall, regCall, allowCall,
                   slashCall, writeCall, mgr>>
    /\ AppUnchanged

SearchInit == searchCall = NoSearchCall

NextSearch == WebSearchCall \/ WebSearchReturn

(***************************************************************************)
(* session.Manager: the cache of sessions by key, and GetOrCreate called   *)
(* by two tasks. A Session object is a number: the n-th object made by     *)
(* Load or New since the Manager was made; 0 is no object.                 *)
(***************************************************************************)
Callers == {"t1", "t2"}
SessionKeys == {"cli:1", "slack:C1"}
NoGet == [pc |-> "idle", key |-> "", s |-> 0, err |-> FALSE]

\* NewManager(dir)
NewManager ==
    [cache |-> [k \in SessionKeys |-> 0], made |-> 0, calls |-> [t \in Callers |-> NoGet],
     returned |-> {}, overlap |-> FALSE]

MgrUnchanged ==
    /\ UNCHANGED <<execCall, pathCall, hostCall, envCall, regCall, allowCall,
                   slashCall, writeCall, searchCall>>
    /\ AppUnchanged

\* GetOrCreate(key) from m.mu.Lock() to the first m.mu.Unlock(): a key in the
\* cache is returned, another one goes on to Load without the lock
GetLookup(t, key) ==
    /\ mgr.calls[t].pc = "idle"
    /\ mgr' = [mgr EXCEPT
           !.calls[t] = IF mgr.cache[key] # 0
                        THEN [pc |-> "returned", key |-> key, s |-> mgr.cache[key],
                              err |-> FALSE]
                        ELSE [pc |-> "load", key |-> key, s |-> 0, err |-> FALSE],
           !.overlap = @ \/ \E u \in Callers \ {t} :
                                mgr.calls[u].key = key /\ mgr.calls[u].pc \in {"load", "store"}]
    /\ MgrUnchanged

\* Load(m.Dir, key) returns a session read from the file, or nil and then
\* New(key) makes one: a new Session object either way
GetLoad(t) ==
    /\ mgr.calls[t].pc = "load"
    /\ mgr.made < MaxSessionObjects
    /\ mgr' = [mgr EXCEPT !.made = @ + 1,
                          !.calls[t] = [@ EXCEPT !.pc = "store", !.s = mgr.made + 1]]
    /\ MgrUnchanged

\* Load(m.Dir, key) returns an error, and GetOrCreate returns nil and it
GetLoadFails(t) ==
    /\ mgr.calls[t].pc = "load"
    /\ mgr' = [mgr EXCEPT !.calls[t] = [@ EXCEPT !.pc = "returned", !.err = TRUE]]
    /\ MgrUnchanged

\* m.mu.Lock(); m.cache[key] = s; m.mu.Unlock(); return s, nil
GetStore(t) ==
    /\ mgr.calls[t].pc = "store"
    /\ mgr' = [mgr EXCEPT !.cache[mgr.calls[t].key] = mgr.calls[t].s,
                          !.calls[t] = [@ EXCEPT !.pc = "returned"]]
    /\ MgrUnchanged

\* the caller has the session GetOrCreate returned
GetReturn(t) ==
    /\ mgr.calls[t].pc = "returned"
    /\ mgr' = [mgr EXCEPT
           !.calls[t] = NoGet,
           !.returned = IF mgr.calls[t].err THEN @
                        ELSE @ \cup {[key |-> mgr.calls[t].key, s |-> mgr.calls[t].s]}]
    /\ MgrUnchanged

\* Manager.Save(s) of a session a task holds, the file written: m.cache[s.Key] = s
ManagerSave ==
    \E r \in mgr.returned :
        /\ mgr.cache[r.key] # r.s
        /\ mgr' = [mgr EXCEPT !.cache[r.key] = r.s]
        /\ MgrUnchanged

MgrInit == mgr = NewManager

NextMgr ==
    \/ \E t \in Callers, key \in SessionKeys : GetLookup(t, key)
    \/ \E t \in Callers : GetLoad(t)
    \/ \E t \in Callers : GetLoadFails(t)
    \/ \E t \in Callers : GetStore(t)
    \/ \E t \in Callers : GetReturn(t)
    \/ ManagerSave

(***************************************************************************)
(* The domain policy of web_fetch: allowHostByPolicy and                   *)
(* domainMatchesPattern.                                                   *)
(***************************************************************************)
\* strings.TrimSuffix
TrimSuffix(s, suffix) ==
    IF HasSuffix(s, suffix) THEN SubSeq(s, 1, Len(s) - Len(suffix)) ELSE s

\* net.ParseIP(s) != nil: four decimal fields of 0..255 without leading
\* zeros, or an IPv6 text (hexadecimal groups with at least two colons)
IsIPv4(s) ==
    LET f == SplitOn(s, {"."})
    IN  /\ Len(f) = 4
        /\ \A i \in 1..4 : /\ AllDigits(f[i]) /\ Len(f[i]) <= 3
                           /\ (Len(f[i]) > 1 => f[i][1] # "0")
                           /\ DigitsValue(f[i]) <= 255
IsIPv6(s) ==
    /\ Cardinality({i \in 1..Len(s) : s[i] = ":"}) >= 2
    /\ \A i \in 1..Len(s) : IsDigit(s[i]) \/ s[i] \in {":", "a", "b", "c", "d", "e", "f",
                                                     "A", "B", "C", "D", "E", "F"}
ParseIP(s) == IsIPv4(s) \/ IsIPv6(s)

\* net.SplitHostPort: [ok, host]
SplitHostPort(h) ==
    LET colons == {i \in 1..Len(h) : h[i] = ":"}
        close == {i \in 1..Len(h) : h[i] = "]"}
    IN  IF h # <<>> /\ h[1] = "["
        THEN IF close # {} /\ (CHOOSE i \in close : \A j \in close : i <= j) < Len(h)
                /\ h[(CHOOSE i \in close : \A j \in close : i <= j) + 1] = ":"
                /\ \A i \in colons : i <= (CHOOSE j \in close : \A k \in close : j <= k) + 1
             THEN [ok |-> TRUE,
                   host |-> SubSeq(h, 2, (CHOOSE i \in close : \A j \in close : i <= j) - 1)]
             ELSE [ok |-> FALSE, host |-> <<>>]
        ELSE IF Cardinality(colons) = 1 /\ close = {} /\ (\A i \in 1..Len(h) : h[i] # "[")
        THEN [ok |-> TRUE, host |-> SubSeq(h, 1, (CHOOSE i \in colons : TRUE) - 1)]
        ELSE [ok |-> FALSE, host |-> <<>>]

normalizeFetchHost(raw) ==
    LET h0 == TrimSpace(raw)
        h1 == IF HasPrefix(h0, <<"[">>) /\ HasSuffix(h0, <<"]">>)
              THEN SubSeq(h0, 2, Len(h0) - 1) ELSE h0
        h2 == IF SplitHostPort(h1).ok THEN SplitHostPort(h1).host ELSE h1
        h3 == TrimSuffix(TrimPrefix(h2, <<"[">>), <<"]">>)
    IN  IF h0 = <<>> THEN <<>> ELSE ToLower(TrimSuffix(h3, <<".">>))

normalizeDomainPattern(raw) ==
    LET p == ToLower(TrimSpace(raw))
    IN  IF p = <<>> THEN <<>>
        ELSE IF p = <<"*">> THEN p
        ELSE normalizeFetchHost(TrimPrefix(p, <<".">>))

\* (mutant) a pattern matches every host that ends with it
domainEndsWithPattern(host, pattern) ==
    LET h == normalizeFetchHost(host)
        p == normalizeDomainPattern(pattern)
    IN  h # <<>> /\ p # <<>> /\ HasSuffix(h, p)
domainMatchesPattern(host, pattern) ==
    LET h == normalizeFetchHost(host)
        p == normalizeDomainPattern(pattern)
    IN  IF h = <<>> \/ p = <<>> THEN FALSE
        ELSE IF h = p THEN TRUE
        ELSE IF ParseIP(h) \/ ParseIP(p) THEN FALSE
        ELSE HasSuffix(h, <<".">> \o p)

\* the loop over the blocked patterns: TRUE when one matches
RECURSIVE blockedLoop(_, _)
blockedLoop(host, blockedDomains) ==
    IF blockedDomains = <<>> THEN FALSE
    ELSE IF normalizeDomainPattern(Head(blockedDomains)) = <<>>
    THEN blockedLoop(host, Tail(blockedDomains))
    ELSE IF domainMatchesPattern(host, normalizeDomainPattern(Head(blockedDomains))) THEN TRUE
    ELSE blockedLoop(host, Tail(blockedDomains))

\* the loop over the allowed patterns: TRUE when one is "*" or matches
RECURSIVE allowedLoop(_, _)
allowedLoop(host, allowedDomains) ==
    IF allowedDomains = <<>> THEN FALSE
    ELSE IF normalizeDomainPattern(Head(allowedDomains)) = <<>>
    THEN allowedLoop(host, Tail(allowedDomains))
    ELSE IF \/ normalizeDomainPattern(Head(allowedDomains)) = <<"*">>
            \/ domainMatchesPattern(host, normalizeDomainPattern(Head(allowedDomains)))
    THEN TRUE
    ELSE allowedLoop(host, Tail(allowedDomains))

\* a slice of domain patterns; the nil slice (none configured)
Domains(items) == [nil |-> FALSE, items |-> items]
NilDomains == [nil |-> TRUE, items |-> <<>>]

\* allowHostByPolicy: [ok, reason]
allowHostByPolicy(host, allowedDomains, blockedDomains) ==
    LET h == normalizeFetchHost(host)
        allowed == IF allowedDomains.nil THEN <<<<"*">>>> ELSE allowedDomains.items
        blocked == blockedDomains.items
    IN  IF h = <<>> THEN [ok |-> FALSE, reason |-> "invalid host"]
        ELSE IF blockedLoop(h, blocked)
        THEN [ok |-> FALSE, reason |-> "host is blocked by policy"]
        ELSE IF Len(allowed) = 0
        THEN [ok |-> FALSE, reason |-> "no allowed domains configured"]
        ELSE IF allowedLoop(h, allowed) THEN [ok |-> TRUE, reason |-> ""]
        ELSE [ok |-> FALSE, reason |-> "host is not in allowed domains"]

\* the hosts web_fetch asks for (url.Host of the request and of redirects)
FetchHosts ==
    {<<"e", "x", "a", "m", "p", "l", "e", ".", "c", "o", "m">>, <<"a", "p", "i", ".", "e", "x", "a", "m", "p", "l", "e", ".", "c", "o", "m">>, <<"A", "P", "I", ".", "E", "x", "a", "m", "p", "l", "e", ".", "C", "O", "M", ":", "8", "0", "8", "0">>, <<"n", "o", "t", "e", "x", "a", "m", "p", "l", "e", ".", "c", "o", "m">>,
     <<"e", "x", "a", "m", "p", "l", "e", ".", "c", "o", "m", ".">>, <<"o", "t", "h", "e", "r", ".", "c", "o", "m">>, <<"c", "o", "m">>, <<"1", "0", ".", "0", ".", "0", ".", "1">>, <<"1", ".", "1", "0", ".", "0", ".", "0", ".", "1">>, <<"1", "2", "7", ".", "0", ".", "0", ".", "1", ":", "8", "0">>,
     <<"[", ":", ":", "1", "]", ":", "4", "4", "3">>, <<"[", ":", ":", "1", "]">>, <<"e", "x", "a", "m", "p", "l", "e", ".", "c", "o", "m", ".", "e", "v", "i", "l", ".", "o", "r", "g">>}
\* the patterns of the configuration
DomainPatterns ==
    {<<"*">>, <<"e", "x", "a", "m", "p", "l", "e", ".", "c", "o", "m">>, <<".", "e", "x", "a", "m", "p", "l", "e", ".", "c", "o", "m">>, <<" ", "E", "x", "a", "m", "p", "l", "e", ".", "c", "o", "m", " ">>, <<"o", "t", "h", "e", "r", ".", "c", "o", "m">>, <<"c", "o", "m">>,
     <<"0", ".", "0", ".", "1">>, <<"1", "0", ".", "0", ".", "0", ".", "1">>, <<":", ":", "1">>, <<>>}
AllowedLists ==
    {NilDomains, Domains(<<>>)} \cup {Domains(<<p>>) : p \in DomainPatterns}
        \cup {Domains(<<<<"o", "t", "h", "e", "r", ".", "c", "o", "m">>, p>>) : p \in {<<"*">>, <<"e", "x", "a", "m", "p", "l", "e", ".", "c", "o", "m">>, <<"c", "o", "m">>}}
BlockedLists ==
    {NilDomains, Domains(<<>>)} \cup {Domains(<<p>>) : p \in DomainPatterns \ {<<" ", "E", "x", "a", "m", "p", "l", "e", ".", "c", "o", "m", " ">>}}
        \cup {Domains(<<<<"o", "t", "h", "e", "r", ".", "c", "o", "m">>, <<"e", "x", "a", "m", "p", "l", "e", ".", "c", "o", "m">>>>)}

NoHostCall == [pc |-> "idle", host |-> <<>>, allowed |-> NilDomains, blocked |-> NilDomains,
               ok |-> FALSE, reason |-> ""]

\* one call of allowHostByPolicy from webFetch
AllowHostCall ==
    \E h \in FetchHosts, A \in AllowedLists, B \in BlockedLists :
        /\ hostCall.pc = "idle"
        /\ hostCall' = [pc |-> "returned", host |-> h, allowed |-> A, blocked |-> B,
                        ok |-> allowHostByPolicy(h, A, B).ok,
                        reason |-> allowHostByPolicy(h, A, B).reason]
        /\ UNCHANGED <<execCall, pathCall, envCall, regCall, allowCall, slashCall,
                       writeCall, searchCall, mgr>>
        /\ AppUnchanged

\* webFetch goes on, or returns the policy's reason
AllowHostReturn ==
    /\ hostCall.pc = "returned"
    /\ hostCall' = NoHostCall
    /\ UNCHANGED <<execCall, pathCall, envCall, regCall, allowCall, slashCall,
                   writeCall, searchCall, mgr>>
    /\ AppUnchanged

HostInit == hostCall = NoHostCall

NextHost == AllowHostCall \/ AllowHostReturn

(***************************************************************************)
(* The environment of the commands of the exec tool: applySafeExecEnv, in  *)
(* two runs of the gateway side by side.                                   *)
(***************************************************************************)
safeExecEnvVars == <<"PATH", "HOME", "TERM", "LANG", "LC_ALL", "LC_CTYPE", "USER", "SHELL",
                     "TMPDIR">>
SafeNames == {safeExecEnvVars[i] : i \in 1..Len(safeExecEnvVars)}
\* variables of the gateway process outside the safe set
OtherNames == {"CLAWLET_EXEC_TEST_SECRET", "OPENAI_API_KEY"}
EnvNames == SafeNames \cup OtherNames
\* os.LookupEnv finds nothing
Unset == "(unset)"

\* the safe variables of a gateway process
SafeSettings ==
    {[n \in SafeNames |-> Unset],
     [n \in SafeNames |-> IF n = "PATH" THEN "/usr/bin:/bin" ELSE Unset],
     [n \in SafeNames |-> IF n = "PATH" THEN "/opt/bin" ELSE IF n = "HOME" THEN "/home/u"
                          ELSE IF n = "LANG" THEN "C" ELSE Unset],
     [n \in SafeNames |-> IF n = "PATH" THEN "/usr/bin:/bin" ELSE IF n = "HOME" THEN "/home/u"
                          ELSE IF n = "USER" THEN "u" ELSE IF n = "SHELL" THEN "/bin/sh"
                          ELSE IF n = "TMPDIR" THEN "/tmp" ELSE IF n = "TERM" THEN "xterm"
                          ELSE "en_US.UTF-8"]}
OtherSettings == [OtherNames -> {Unset, "super-secret", ""}]
\* the environments of a gateway process
Environments ==
    {[n \in EnvNames |-> IF n \in SafeNames THEN s[n] ELSE o[n]] :
        s \in SafeSettings, o \in OtherSettings}

\* (mutant) the command inherits the environment of the process: os.Environ
RECURSIVE inheritedEnv(_, _)
inheritedEnv(environ, keys) ==
    IF \A n \in EnvNames : environ[n] = Unset THEN <<>>
    ELSE LET n == CHOOSE n \in EnvNames : environ[n] # Unset
         IN  <<<<n, environ[n]>>>> \o inheritedEnv([environ EXCEPT ![n] = Unset], keys)
\* applySafeExecEnv: cmd.Env, the pairs key=value of the safe keys that are
\* set in the process, in the order of keys
RECURSIVE applySafeExecEnv(_, _)
applySafeExecEnv(environ, keys) ==
    IF keys = <<>> THEN <<>>
    ELSE (IF environ[Head(keys)] # Unset THEN <<<<Head(keys), environ[Head(keys)]>>>> ELSE <<>>)
         \o applySafeExecEnv(environ, Tail(keys))

\* the value of a variable in the environment of the command, "" if absent
Getenv(cmdEnv, name) ==
    IF \E i \in 1..Len(cmdEnv) : cmdEnv[i][1] = name
    THEN cmdEnv[CHOOSE i \in 1..Len(cmdEnv) : cmdEnv[i][1] = name][2]
    ELSE ""

\* the commands: env prints the environment, echo "$NAME" prints one variable
EnvCommands == {[kind |-> "env", name |-> ""]} \cup
               {[kind |-> "echo", name |-> n] : n \in {"PATH", "CLAWLET_EXEC_TEST_SECRET"}}
\* the lines the command writes to its standard output
Stdout(command, cmdEnv) ==
    IF command.kind = "env" THEN cmdEnv ELSE <<Getenv(cmdEnv, command.name)>>
\* the result of Registry.exec for a command that ends with status 0
ExecResult(command, cmdEnv) ==
    IF Stdout(command, cmdEnv) = <<>> THEN <<"exit=0">>
    ELSE <<"exit=0", "stdout:">> \o Stdout(command, cmdEnv)

NoEnvCall == [pc |-> "idle", command |-> [kind |-> "", name |-> ""],
              environ |-> <<>>, cmdEnv |-> <<>>, out |-> <<>>]

\* the same command run by the exec tool of two gateway processes
EnvExecCall ==
    \E c \in EnvCommands, e1 \in Environments, e2 \in Environments :
        /\ envCall.pc = "idle"
        /\ envCall' = [pc |-> "returned", command |-> c, environ |-> <<e1, e2>>,
                       cmdEnv |-> <<applySafeExecEnv(e1, safeExecEnvVars),
                                    applySafeExecEnv(e2, safeExecEnvVars)>>,
                       out |-> <<ExecResult(c, applySafeExecEnv(e1, safeExecEnvVars)),
                                 ExecResult(c, applySafeExecEnv(e2, safeExecEnvVars))>>]
        /\ UNCHANGED <<execCall, pathCall, hostCall, regCall, allowCall, slashCall,
                       writeCall, searchCall, mgr>>
        /\ AppUnchanged

EnvExecReturn ==
    /\ envCall.pc = "returned"
    /\ envCall' = NoEnvCall
    /\ UNCHANGED <<execCall, pathCall, hostCall, regCall, allowCall, slashCall,
                   writeCall, searchCall, mgr>>
    /\ AppUnchanged

EnvInit == envCall = NoEnvCall

NextEnv == EnvExecCall \/ EnvExecReturn

(***************************************************************************)
(* The tool registry: Definitions and Execute with the capabilities of the *)
(* Registry (API key, Outbound, Spawn, Cron, ReadSkill).                   *)
(***************************************************************************)
BuiltinTools == {"read_file", "write_file", "edit_file", "list_dir", "exec", "web_fetch"}
GatedTools == {"web_search", "message", "spawn", "cron", "read_skill"}
\* names a model may ask for
ToolNames == BuiltinTools \cup GatedTools \cup {"edit_file_replace", "shell", ""}

\* the Registry: the Brave API key and whether each callback is set
Registries ==
    [BraveAPIKey : {"", "key"}, Outbound : BOOLEAN, Spawn : BOOLEAN, Cron : BOOLEAN,
     ReadSkill : BOOLEAN]

\* the capability of a gated tool is configured
Configured(r, name) ==
    CASE name = "web_search" -> r.BraveAPIKey # ""
      [] name = "message" -> r.Outbound
      [] name = "spawn" -> r.Spawn
      [] name = "cron" -> r.Cron
      [] name = "read_skill" -> r.ReadSkill
      [] OTHER -> FALSE

\* (mutant) every tool is listed
AllDefinitions(r) == BuiltinTools \cup GatedTools
\* Registry.Definitions: the names of the definitions returned
Definitions(r) == BuiltinTools \cup {n \in GatedTools : Configured(r, n)}

\* the tools Execute dispatches
DispatchedTools == BuiltinTools \cup GatedTools \cup {"edit_file_replace"}

\* Registry.Execute with well-formed arguments: the error, "" when the tool ran
Execute(r, name) ==
    IF name \notin DispatchedTools THEN "unknown tool"
    ELSE IF name = "web_search" /\ r.BraveAPIKey = "" THEN "braveApiKey not configured"
    ELSE IF name = "message" /\ ~r.Outbound THEN "outbound not configured"
    ELSE IF name = "spawn" /\ ~r.Spawn THEN "spawn not configured"
    ELSE IF name = "cron" /\ ~r.Cron THEN "cron not configured"
    ELSE IF name = "read_skill" /\ ~r.ReadSkill THEN "skills not configured"
    ELSE ""

NoRegCall == [pc |-> "idle", registry |-> [BraveAPIKey |-> "", Outbound |-> FALSE,
                                           Spawn |-> FALSE, Cron |-> FALSE,
                                           ReadSkill |-> FALSE],
              name |-> "", defs |-> {}, err |-> ""]

\* the agent lists the definitions of a Registry and executes a tool call
RegistryCall ==
    \E r \in Registries, name \in ToolNames :
        /\ regCall.pc = "idle"
        /\ regCall' = [pc |-> "returned", registry |-> r, name |-> name,
                       defs |-> Definitions(r), err |-> Execute(r, name)]
        /\ UNCHANGED <<execCall, pathCall, hostCall, envCall, allowCall, slashCall,
                       writeCall, searchCall, mgr>>
        /\ AppUnchanged

RegistryReturn ==
    /\ regCall.pc = "returned"
    /\ regCall' = NoRegCall
    /\ UNCHANGED <<execCall, pathCall, hostCall, envCall, allowCall, slashCall,
                   writeCall, searchCall, mgr>>
    /\ AppUnchanged

RegInit == regCall = NoRegCall

NextReg == RegistryCall \/ RegistryReturn

(***************************************************************************)
(* channels.AllowList: the filter of inbound messages by sender.           *)
(***************************************************************************)
\* (mutant) only the whole sender id is compared
AllowedWhole(AllowFrom, senderID) ==
    \/ Len(AllowFrom) = 0
    \/ \E i \in 1..Len(AllowFrom) : TrimSpace(senderID) = AllowFrom[i]
\* AllowList.Allowed
Allowed(AllowFrom, senderID) ==
    LET id == TrimSpace(senderID)
        parts == SplitOn(id, {"|"})
    IN  IF Len(AllowFrom) = 0 THEN TRUE
        ELSE IF id = <<>> THEN FALSE
        ELSE IF \E i \in 1..Len(AllowFrom) : id = AllowFrom[i] THEN TRUE
        ELSE IF Contains(id, <<"|">>)
        THEN \E k \in 1..Len(parts) :
                 /\ TrimSpace(parts[k]) # <<>>
                 /\ \E i \in 1..Len(AllowFrom) : TrimSpace(parts[k]) = AllowFrom[i]
        ELSE FALSE

\* the entries of allowFrom in the configuration, and the lists made of them
AllowEntries == {<<"a">>, <<"b">>, <<"a", "|", "b">>, <<" ", "a">>}
AllowLists ==
    {<<>>} \cup {<<e>> : e \in AllowEntries}
           \cup {<<e, f>> : e \in AllowEntries, f \in AllowEntries \ {<<" ", "a">>}}
\* the sender ids the channels pass
SenderIDs ==
    {<<>>, <<" ">>, <<"a">>, <<"b">>, <<"c">>, <<" ", "a", " ">>, <<"a", "|", "b">>, <<"c", "|", "a">>, <<"b", "|", "c">>, <<"c", "|", "d">>, <<"a", "|">>, <<"|">>,
     <<"c", " ", "|", " ", "b">>, <<"c", "|", "d", "|", "a">>}

NoAllowCall == [pc |-> "idle", AllowFrom |-> <<>>, senderID |-> <<>>, ok |-> FALSE]

\* a channel asks whether the sender of an inbound message is allowed
AllowedCall ==
    \E l \in AllowLists, s \in SenderIDs :
        /\ allowCall.pc = "idle"
        /\ allowCall' = [pc |-> "returned", AllowFrom |-> l, senderID |-> s,
                         ok |-> Allowed(l, s)]
        /\ UNCHANGED <<execCall, pathCall, hostCall, envCall, regCall, slashCall,
                       writeCall, searchCall, mgr>>
        /\ AppUnchanged

AllowedReturn ==
    /\ allowCall.pc = "returned"
    /\ allowCall' = NoAllowCall
    /\ UNCHANGED <<execCall, pathCall, hostCall, envCall, regCall, slashCall,
                   writeCall, searchCall, mgr>>
    /\ AppUnchanged

AllowInit == allowCall = NoAllowCall

NextAllow == AllowedCall \/ AllowedReturn

(***************************************************************************)
(* The slash commands of the per-message pipeline: normalizeSlashCommand   *)
(* and handleSlashCommand.                                                 *)
(***************************************************************************)
\* the text up to the first "@"
BeforeAt(s) ==
    IF \E i \in 1..Len(s) : s[i] = "@"
    THEN SubSeq(s, 1, (CHOOSE i \in 1..Len(s) : s[i] = "@" /\ \A j \in 1..(i - 1) : s[j] # "@") - 1)
    ELSE s

\* normalizeSlashCommand: the lower-cased first word without its @bot suffix
\* when it starts with "/", else the text
normalizeSlashCommand(text) ==
    IF TrimSpace(text) = <<>> THEN <<>>
    ELSE IF ~HasPrefix(Fields(text)[1], <<"/">>) THEN TrimSpace(text)
    ELSE BeforeAt(ToLower(Fields(text)[1]))

HelpText == "Commands: /new starts a new session, /help shows this help"

\* (mutant) /new clears the metadata as well
handleSlashCommandClearingAll(sess, text) ==
    IF normalizeSlashCommand(text) = <<"/", "n", "e", "w">>
    THEN [handled |-> TRUE, out |-> "New session started.",
          sess |-> [sess EXCEPT !.Messages = <<>>, !.Metadata = 0]]
    ELSE [handled |-> FALSE, out |-> "", sess |-> sess]
\* handleSlashCommand: [handled, out] and the session after the call
handleSlashCommand(sess, text) ==
    IF normalizeSlashCommand(text) = <<"/", "n", "e", "w">>
    THEN [handled |-> TRUE, out |-> "New session started.",
          sess |-> [sess EXCEPT !.Messages = <<>>]]
    ELSE IF normalizeSlashCommand(text) = <<"/", "h", "e", "l", "p">>
    THEN [handled |-> TRUE, out |-> HelpText, sess |-> sess]
    ELSE [handled |-> FALSE, out |-> "", sess |-> sess]

\* the sessions a command arrives in
SlashSessions ==
    [Key : {"telegram:1", "cli:direct"},
     Messages : {<<>>, <<"hello">>, <<"hello", "world">>},
     Metadata : {0, 1}]
\* the texts of the inbound messages
SlashTexts ==
    {<<"/", "n", "e", "w">>, <<"/", "n", "e", "w", "@", "m", "y", "_", "b", "o", "t">>, <<"/", "n", "e", "w", " ", "p", "l", "e", "a", "s", "e">>, <<"/", "N", "E", "W">>, <<" ", "/", "n", "e", "w", " ">>, <<"/", "h", "e", "l", "p">>, <<"/", "h", "e", "l", "p", " ", "p", "l", "e", "a", "s", "e">>,
     <<"/", "h", "e", "l", "p", "@", "m", "y", "_", "b", "o", "t", " ", "n", "o", "w">>, <<"/", "u", "n", "k", "n", "o", "w", "n">>, <<"/", "n", "e", "w", "e", "r">>, <<"/", "s", "t", "o", "p", "@", "m", "y", "_", "b", "o", "t", " ", "x">>, <<"/">>, <<"h", "e", "l", "l", "o">>,
     <<"h", "e", "l", "l", "o", " ", "/", "n", "e", "w">>, <<>>}

NoSlashCall == [pc |-> "idle", text |-> <<>>,
                before |-> [Key |-> "", Messages |-> <<>>, Metadata |-> 0],
                after |-> [Key |-> "", Messages |-> <<>>, Metadata |-> 0],
                handled |-> FALSE, out |-> ""]

\* the pipeline hands the text of an inbound message to handleSlashCommand
SlashCall ==
    \E sess \in SlashSessions, text \in SlashTexts :
        /\ slashCall.pc = "idle"
        /\ slashCall' = [pc |-> "returned", text |-> text, before |-> sess,
                         after |-> handleSlashCommand(sess, text).sess,
                         handled |-> handleSlashCommand(sess, text).handled,
                         out |-> handleSlashCommand(sess, text).out]
        /\ UNCHANGED <<execCall, pathCall, hostCall, envCall, regCall, allowCall,
                       writeCall, searchCall, mgr>>
        /\ AppUnchanged

SlashReturn ==
    /\ slashCall.pc = "returned"
    /\ slashCall' = NoSlashCall
    /\ UNCHANGED <<execCall, pathCall, hostCall, envCall, regCall, allowCall,
                   writeCall, searchCall, mgr>>
    /\ AppUnchanged

SlashCmdInit == slashCall = NoSlashCall

NextSlash == SlashCall \/ SlashReturn

Init ==
    /\ SessionInit /\ BusInit /\ MemoryInit /\ CronInit /\ TurnInit /\ SendInit
    /\ SlackInit /\ ExecInit /\ PathInit /\ HostInit /\ EnvInit /\ RegInit /\ AllowInit /\ SlashCmdInit
    /\ WriteInit /\ SearchInit /\ MgrInit

\* the session and its file
Next ==
    \/ nextId <= MaxAdds /\ \E contentLen \in ContentLens : Add(contentLen)
    \/ Save
    \/ ApplyCall
    \/ ClearMessages

Spec == Init /\ [][Next]_vars

\* a session loaded from a file that earlier runs left with k metadata lines
\* (written under other thresholds; the thresholds are package variables):
\* compacted once, then appended to k - 1 times
OldFile(k) == [exists |-> TRUE, lines |-> [i \in 1..k |-> MetaLine(0, 0)]]
LoadedInit ==
    \E k \in {appendCompactionMaxMetadataLines - 1, appendCompactionMaxMetadataLines,
              appendCompactionMaxMetadataLines + 1} :
        /\ file = OldFile(k)
        /\ Messages = Load(OldFile(k)).Messages
        /\ Metadata = Load(OldFile(k)).Metadata
        /\ UpdatedAt = Load(OldFile(k)).UpdatedAt
        /\ version = 0
        /\ persistedMessages = Len(Load(OldFile(k)).Messages)
        /\ appendSaves = 0
        /\ metadataLineCount = Load(OldFile(k)).metadataLines
        /\ needsCompaction = (Load(OldFile(k)).metadataLines > appendCompactionMaxMetadataLines)
        /\ clock = 0
        /\ cons = ConsIdle
        /\ nextId = 1
        /\ appended = <<>>
        /\ applied = FALSE
        /\ restarts = 0
        /\ last = [op |-> "Load", ok |-> TRUE, path |-> "", ver |-> 0, keep |-> 0,
                   applied |-> FALSE, pre |-> NoPre, appends |-> k - 1,
                   step |-> "", tmp |-> NoFile, window |-> 0, old |-> <<>>,
                   toolsUsed |-> <<>>]
        /\ BusInit /\ MemoryInit /\ CronInit /\ TurnInit /\ SendInit
        /\ SlackInit /\ ExecInit /\ PathInit /\ HostInit /\ EnvInit /\ RegInit /\ AllowInit
        /\ SlashCmdInit
        /\ WriteInit /\ SearchInit /\ MgrInit

\* the session loaded from an old file, and its file
SpecSave == LoadedInit /\ [][Next]_vars

\* the session, its file and restarts of the process: every sequence of Load,
\* Add, ApplyConsolidation and Save
NextStore ==
    \/ nextId <= MaxRestartAdds /\ \E contentLen \in ContentLens : Add(contentLen)
    \/ Save
    \/ ApplyCall
    \/ Restart

SpecStore == Init /\ [][NextStore]_vars

\* the session and its file when compactions can fail
NextSaveErr ==
    \/ nextId <= MaxStoreAdds /\ \E contentLen \in ContentLens : Add(contentLen)
    \/ Save
    \/ SaveCompactFails
    \/ ApplyCall
    \/ ClearMessages

SpecSaveErr == Init /\ [][NextSaveErr]_vars

\* the session under Add, SnapshotForConsolidation and the ApplyConsolidation
\* that follows a snapshot
NextSnap ==
    \/ nextId <= MaxSnapshotAdds /\ Add(ShortContent)
    \/ SnapshotCall
    \/ version - Len(appended) < MaxSnapshotApplies /\ ApplySnapshot

SpecSnap == Init /\ [][NextSnap]_vars

\* the session under AddWithTools with every list of ToolLists
NextAdd ==
    \/ nextId <= MaxToolAdds /\ \E toolsUsed \in ToolLists : AddWithTools(ShortContent, toolsUsed)

SpecAdd == Init /\ [][NextAdd]_vars

\* the session and one consolidation task
NextCons ==
    \/ nextId <= MaxConsAdds /\ \E contentLen \in ContentLens : Add(contentLen)
    \/ ConsolidateSnapshot
    \/ ConsolidateSkip
    \/ ConsolidateSummarizeError
    \/ ConsolidateCommit
    \/ ClearMessages

SpecCons == Init /\ [][NextCons]_vars

\* the same, the history file failing to be written at times
NextArchive == NextCons \/ ConsolidateHistoryFails

SpecArchive == Init /\ [][NextArchive]_vars

\* the session under every way of changing it in memory
NextEdit ==
    \/ nextId <= MaxAdds /\ \E contentLen \in ContentLens : Add(contentLen)
    \/ ApplyCall
    \/ ClearMessages
    \/ SetMetadata

SpecEdit == Init /\ [][NextEdit]_vars

SpecBus == Init /\ [][NextBus]_vars

\* Shutdown. A task enters a bus call only while the root context is live:
\* after the cancellation the loop, the dispatcher and the channels return
\* from Run/Start and the HTTP server is shut down, and only the calls in
\* progress go on.
StartsBusCall ==
    \/ \E t \in Channels : PublishCall("PublishInbound", t)
    \/ ConsumeCall("ConsumeInbound", "loop")
    \/ PublishCall("PublishOutbound", "loop")
    \/ ConsumeCall("ConsumeOutbound", "dispatch")

\* the select task t is in runs one of its cases
SelectStep(t) ==
    \/ \E op \in {"PublishInbound", "PublishOutbound"} : PublishSend(op, t)
    \/ \E op \in {"ConsumeInbound", "ConsumeOutbound"} : ConsumeRecv(op, t)
    \/ \E op \in {"PublishInbound", "PublishOutbound", "ConsumeInbound",
                  "ConsumeOutbound"} : SelectCtxDone(op, t)

NextShutdown ==
    \/ New
    \/ ~ctxDone /\ StartsBusCall
    \/ \E t \in Tasks : SelectStep(t)
    \/ CancelCtx

\* a goroutine in a select runs a case that stays ready (the Go scheduler)
SpecShutdown == Init /\ [][NextShutdown]_vars /\ \A t \in Tasks : WF_vars(SelectStep(t))

\* the cron service
SpecCron == Init /\ [][NextCron]_vars
SpecCronAdd == Init /\ [][NextCronAdd]_vars

\* the agent loop's turns; a turn in progress takes its next step (an LLM call
\* and a tool execution return)
SpecTurn == Init /\ [][NextTurn]_vars /\ WF_vars(TurnStep)

\* Telegram's Send; a call in progress takes its next step (SendMessage
\* returns, the timer fires or the cancellation is seen)
SpecSend == Init /\ [][NextSend]_vars /\ WF_vars(SendStep)

\* shouldRetryTelegramSend called on every error of Errors
SpecRetry == Init /\ [][NextRetry]_vars

\* the Slack endpoint
SpecSlack == Init /\ [][NextSlack]_vars

\* the exec tool on every command of Commands
SpecExec == Init /\ [][NextExec]_vars

\* the file tools on every path of ToolPaths
SpecPath == Init /\ [][NextPath]_vars
SpecRace == Init /\ [][NextRace]_vars
SpecSearch == Init /\ [][NextSearch]_vars
SpecMgr == Init /\ [][NextMgr]_vars

\* the domain policy on every host and pair of lists
SpecHost == Init /\ [][NextHost]_vars

\* a command of exec in two gateway processes with their environments
SpecEnv == Init /\ [][NextEnv]_vars

\* the tool registry with every set of capabilities
SpecReg == Init /\ [][NextReg]_vars

\* the allow list of a channel on every list and sender
SpecAllow == Init /\ [][NextAllow]_vars

\* the slash commands on every text and session
SpecSlash == Init /\ [][NextSlash]_vars


(***************************************************************************)
(* Properties.                                                             *)
(***************************************************************************)
Range(seq) == {seq[i] : i \in 1..Len(seq)}
IsSuffix(t, seq) == Len(t) <= Len(seq) /\ t = SubSeq(seq, Len(seq) - Len(t) + 1, Len(seq))
\* the message lines of the file, as messages
FileMessages == [i \in 1..Len(SelectSeq(file.lines, IsMsg)) |-> SelectSeq(file.lines, IsMsg)[i].msg]
FileMetaLines == Len(SelectSeq(file.lines, IsMeta))

\* C1: after a Save of a session that only ever had messages appended (nothing
\* truncated), Load of the file succeeds and returns exactly the messages
\* appended so far, in append order.
C1_LoadReturnsAppended ==
    (last.op = "Save" /\ Messages = appended) =>
        /\ Load(file).ok
        /\ Load(file).found
        /\ Load(file).Messages = appended

\* The same with every line of the file shorter than the scanner's buffer.
LoadReturnsAppendedShortLines ==
    (last.op = "Save" /\ Messages = appended /\ ~ScanTooLong(file.lines)) =>
        /\ Load(file).ok
        /\ Load(file).found
        /\ Load(file).Messages = appended

\* C2: when the consolidation task has committed: if an append completed
\* between its snapshot and its apply, the apply returned false and removed
\* nothing; if the apply returned true, it removed exactly the messages the
\* snapshot returned as old. While the task is in summarize, an append can run.
C2_StaleSnapshotNotApplied ==
    /\ cons.pc = "committed" =>
         /\ cons.adds > 0 => (~cons.ok /\ cons.after = cons.before)
         /\ ~cons.ok => cons.after = cons.before
         /\ cons.ok => cons.before = cons.old \o cons.after
    /\ cons.pc = "summarize" =>
         ENABLED (\E contentLen \in ContentLens : Add(contentLen))

\* the consolidation task lost against an append that ran during summarize
C2_Witness ==
    /\ cons.pc = "committed"
    /\ cons.adds > 0
    /\ ~cons.ok
    /\ Len(cons.before) = Len(cons.old) + cons.keep + cons.adds

\* C3: after ApplyConsolidation(ver, keep) called with the current version and
\* 0 <= keep < len(messages): it returned true, the messages are the last keep
\* messages of the pre-call session, the version is greater and
\* needsCompaction is set.
C3_ApplyKeepsTail ==
    (/\ last.op = "Apply"
     /\ last.ver = last.pre.version
     /\ 0 <= last.keep
     /\ last.keep < Len(last.pre.Messages)) =>
        /\ last.ok
        /\ Len(Messages) = last.keep
        /\ \A i \in 1..last.keep :
             Messages[i] = last.pre.Messages[Len(last.pre.Messages) - last.keep + i]
        /\ version > last.pre.version
        /\ needsCompaction

C3_Witness ==
    /\ last.op = "Apply"
    /\ last.ver = last.pre.version
    /\ last.keep = 2
    /\ Len(last.pre.Messages) = 3
    /\ ~last.pre.needsCompaction

\* C4: ApplyConsolidation called with a version other than the current one
\* returned false and left messages, version, updatedAt and needsCompaction
\* as they were.
C4_MismatchIsNoOp ==
    (last.op = "Apply" /\ last.ver # last.pre.version) =>
        /\ ~last.ok
        /\ Messages = last.pre.Messages
        /\ version = last.pre.version
        /\ UpdatedAt = last.pre.UpdatedAt
        /\ needsCompaction = last.pre.needsCompaction

C4_Witness ==
    /\ last.op = "Apply"
    /\ last.ver # last.pre.version
    /\ 0 <= last.keep
    /\ last.keep < Len(last.pre.Messages)
    /\ ~last.pre.needsCompaction

\* C5: every step that changes the session's messages or metadata leaves the
\* version greater than before.
C5_VersionStrictlyIncreases ==
    [][(Messages' # Messages \/ Metadata' # Metadata) => version' > version]_vars

\* The same for the operations Session itself offers.
VersionIncreasesInMethods ==
    [][(Messages' # Messages /\ last'.op \in {"Add", "Apply"}) => version' > version]_vars

\* C6: the session's messages are a contiguous suffix of the sequence of all
\* messages ever appended to the session.
C6_MessagesAreSuffixOfAppended == IsSuffix(Messages, appended)

C6_Witness ==
    /\ Len(appended) = 3
    /\ Len(Messages) = 2
    /\ Messages[2] = appended[3]
    /\ last.op = "Add"

\* C7: after a Save that took the compact path the file is one metadata line
\* followed by the session's messages in order, and appendSaves = 0,
\* metadataLineCount = 1, needsCompaction = false,
\* persistedMessages = len(messages).
C7_CompactedFileAndCounters ==
    (last.op = "Save" /\ last.path = "compact") =>
        /\ file.exists
        /\ Len(file.lines) = 1 + Len(Messages)
        /\ file.lines[1].type = "metadata"
        /\ \A i \in 1..Len(Messages) :
             file.lines[i + 1].type = "message" /\ file.lines[i + 1].msg = Messages[i]
        /\ appendSaves = 0
        /\ metadataLineCount = 1
        /\ ~needsCompaction
        /\ persistedMessages = Len(Messages)

C7_Witness ==
    /\ last.op = "Save"
    /\ last.path = "compact"
    /\ Len(Messages) = 2
    /\ Len(appended) = 3

\* C8: the Save that follows a successful ApplyConsolidation compacts, and Load
\* then returns exactly the kept messages plus those appended after the apply;
\* no removed message is left in the file.
C8_TruncationRealizedOnDisk ==
    (last.op = "Save" /\ last.applied) =>
        /\ last.path = "compact"
        /\ Range(FileMessages) \subseteq Range(Messages)
        /\ Load(file).ok
        /\ Load(file).Messages = Messages

\* The part of it that is about the file.
TruncationRealizedInFile ==
    (last.op = "Save" /\ last.applied) =>
        /\ last.path = "compact"
        /\ FileMessages = Messages
        /\ FileMetaLines = 1

\* C9: in each direction the messages consumed so far, followed by the
\* messages still buffered, are the messages whose publish completed, in the
\* order of completion; the messages of one publisher are consumed in the
\* order it published them.
C9_FifoPerDirection ==
    \A d \in Dirs :
        /\ published[d] = consumed[d] \o chanBuf[d]
        /\ \A i, j \in 1..Len(consumed[d]) :
             (i < j /\ consumed[d][i].from = consumed[d][j].from) =>
                 consumed[d][i].id < consumed[d][j].id

C9_Witness ==
    /\ Len(consumed["in"]) >= 3
    /\ consumed["in"][1].from = consumed["in"][3].from
    /\ consumed["in"][1].from # consumed["in"][2].from

IsPublish(op) == op \in {"PublishInbound", "PublishOutbound"}
\* the channel operation of a call cannot run
NoProgress(t) ==
    IF IsPublish(call[t].op)
    THEN Len(chanBuf[Dir(call[t].op)]) >= bufferSize
    ELSE Len(chanBuf[Dir(call[t].op)]) = 0
Returns(t) ==
    \/ IsPublish(call[t].op) /\ PublishSend(call[t].op, t)
    \/ ~IsPublish(call[t].op) /\ ConsumeRecv(call[t].op, t)
    \/ SelectCtxDone(call[t].op, t)

\* C10: a call stays blocked while its channel operation cannot run and its
\* context is not cancelled, and can return as soon as one of the two holds;
\* a call that returned the cancellation error had its context cancelled and
\* changed nothing (a failed publish did not enqueue its message, a failed
\* consume removed none); a call that returned nil did its channel operation.
C10_BlockUntilProgressOrCancel ==
    \A t \in Tasks :
        /\ (call[t].status = "blocked" /\ NoProgress(t) /\ ~(t # "slack" /\ ctxDone)) =>
               ~ENABLED Returns(t)
        /\ (call[t].status = "blocked" /\ (~NoProgress(t) \/ (t # "slack" /\ ctxDone))) =>
               ENABLED Returns(t)
        /\ (call[t].status = "blocked" /\ NoProgress(t) /\ t # "slack" /\ ctxDone) =>
               ENABLED SelectCtxDone(call[t].op, t)
        /\ (call[t].status = "returned" /\ call[t].err) =>
               /\ t # "slack" /\ ctxDone
               /\ call[t].delta = 0
               /\ IsPublish(call[t].op) => call[t].msg \notin Range(published[Dir(call[t].op)])
               /\ ~IsPublish(call[t].op) => call[t].msg = NoBusMsg
        /\ (call[t].status = "returned" /\ ~call[t].err) =>
               /\ IsPublish(call[t].op) =>
                    call[t].delta = 1 /\ call[t].msg \in Range(published[Dir(call[t].op)])
               /\ ~IsPublish(call[t].op) =>
                    call[t].delta = -1 /\ call[t].msg \in Range(consumed[Dir(call[t].op)])

C10_Witness ==
    /\ call["telegram"].status = "returned" /\ call["telegram"].err
    /\ Len(chanBuf["in"]) = bufferSize
    /\ call["dispatch"].status = "returned" /\ call["dispatch"].err

\* what one step may do to the queue of a direction: leave it, remove its head
\* (a consume), or append one message when it holds fewer than bufferSize
QueueStep(d) ==
    \/ chanBuf'[d] = chanBuf[d]
    \/ chanBuf[d] # <<>> /\ chanBuf'[d] = Tail(chanBuf[d])
    \/ /\ Len(chanBuf[d]) < bufferSize
       /\ \E t \in Tasks : chanBuf'[d] = Append(chanBuf[d], call[t].msg)

\* C11: a queue never holds more than bufferSize messages, bufferSize being
\* the requested size, or 64 when that is <= 0; a publisher on a full queue
\* cannot send, a consume can unblock it, its context can (when it is
\* cancellable and cancelled), and no step drops or overwrites a queued
\* message: a queue only loses its head to a consumer and only grows at its
\* tail while it has room.
C11_QueueBoundedPublishBlocks ==
    /\ [](/\ bufferSize # 0 =>
               bufferSize = (IF requestedBuffer <= 0 THEN 64 ELSE requestedBuffer)
          /\ \A d \in Dirs : Len(chanBuf[d]) <= bufferSize
          /\ \A t \in Tasks :
               (/\ call[t].status = "blocked"
                /\ IsPublish(call[t].op)
                /\ Len(chanBuf[Dir(call[t].op)]) = bufferSize) =>
                   /\ ~ENABLED PublishSend(call[t].op, t)
                   /\ call[t].msg \notin Range(chanBuf[Dir(call[t].op)])
                   /\ ENABLED SelectCtxDone(call[t].op, t) <=> (t # "slack" /\ ctxDone))
    /\ [][\A d \in Dirs : QueueStep(d)]_vars

\* a publisher is blocked on a full queue after a consumer has taken a
\* message and another publisher has filled the queue again
C11_Witness ==
    /\ bufferSize = 1
    /\ Len(chanBuf["in"]) = 1
    /\ Len(consumed["in"]) = 1
    /\ \E t \in Channels : call[t].status = "blocked" /\ call[t].op = "PublishInbound"

\* bus.New(0) and bus.New(-1) make queues of 64
NewDefaultsTo64 ==
    /\ requestedBuffer <= 0
    /\ bufferSize = 64
    /\ Len(chanBuf["in"]) = 3

\* C12: when appends ran between the snapshot and the commit of a
\* consolidation, maybeConsolidateSession returned (false, nil), the commit
\* left the session's messages as they were, and the call wrote neither
\* HISTORY.md nor MEMORY.md.
C12_StaleCommitPersistsNothing ==
    (cons.pc = "committed" /\ cons.adds > 0) =>
        /\ ~cons.done /\ ~cons.err
        /\ cons.after = cons.before
        /\ cons.histWrites = 0
        /\ cons.memWrites = 0

\* What holds of it: nothing of the summary is persisted. The one write the
\* call can have made is ReadLongTerm's creation of a missing MEMORY.md, with
\* the header as its content.
StaleCommitPersistsNoSummary ==
    (cons.pc = "committed" /\ cons.adds > 0) =>
        /\ ~cons.done /\ ~cons.err
        /\ cons.after = cons.before
        /\ cons.histWrites = 0
        /\ cons.memWrites <= 1
        /\ cons.memWrites = 1 => cons.currentMemory = LongTermHeader
        /\ memoryFile.text \in {LongTermHeader, cons.currentMemory}

\* a stale commit in a workspace whose MEMORY.md existed before the call
StaleCommitWithMemoryPresent ==
    /\ cons.pc = "committed" /\ cons.adds > 0
    /\ cons.memWrites = 0
    /\ cons.currentMemory = LongTermHeader

\* C13: when summarize failed, maybeConsolidateSession returned the error
\* with done = false, the step left the message list and the version as they
\* were, and the call wrote no memory file; when the session was not over the
\* window, it returned (false, nil) and summarize was not called.
C13_SummarizeErrorAndUnderWindow ==
    /\ [](/\ cons.pc = "failed" =>
               /\ cons.err /\ ~cons.done
               /\ cons.after = cons.before
               /\ cons.histWrites = 0
               /\ cons.memWrites = 0
          /\ cons.pc = "skipped" =>
               /\ ~cons.done /\ ~cons.err
               /\ cons.calls = 0)
    /\ [][(cons'.pc \in {"failed", "skipped"} /\ cons' # cons) =>
              (Messages' = Messages /\ version' = version /\ UNCHANGED memVars)]_vars

\* What holds of it: everything but the creation of a missing MEMORY.md by
\* ReadLongTerm before summarize is called.
SummarizeErrorLeavesSession ==
    /\ [](/\ cons.pc = "failed" =>
               /\ cons.err /\ ~cons.done
               /\ cons.after = cons.before
               /\ cons.histWrites = 0
               /\ cons.memWrites <= 1
               /\ cons.memWrites = 1 => cons.currentMemory = LongTermHeader
          /\ cons.pc = "skipped" =>
               /\ ~cons.done /\ ~cons.err
               /\ cons.calls = 0 /\ cons.memWrites = 0 /\ cons.histWrites = 0)
    /\ [][(cons'.pc \in {"failed", "skipped"} /\ cons' # cons) =>
              (Messages' = Messages /\ version' = version /\ UNCHANGED memVars)]_vars

\* C14: the last Add returned an error if its schedule was `every` with
\* everyMS <= 0, `cron` with an expression that does not parse, `at` with a
\* time not after the current time, or of an unknown kind, and stored no job;
\* for any other schedule it returned a job whose nextRunAtMS is greater than
\* the time of the call.
C14_AddValidatesSchedule ==
    lastAdd.called =>
        LET sched == lastAdd.schedule
            bad == \/ sched.kind = "every" /\ sched.everyMS <= 0
                   \/ sched.kind = "cron" /\ sched.expr = "not a cron"
                   \/ sched.kind = "at" /\ sched.atMS <= lastAdd.now
                   \/ sched.kind \notin {"every", "cron", "at"}
        IN  /\ bad => (lastAdd.err /\ lastAdd.job = NoJob)
            /\ ~bad => /\ ~lastAdd.err
                       /\ lastAdd.job.exists
                       /\ lastAdd.job.nextRunAtMS > lastAdd.now

\* an `at` job for the next instant was accepted after a rejected Add left
\* the store empty
C14_Witness ==
    /\ lastAdd.called /\ ~lastAdd.err
    /\ lastAdd.schedule.kind = "at"
    /\ lastAdd.now = 1
    /\ jobs["job1"].exists /\ ~jobs["job2"].exists

\* C15: at most one invocation of trigger is in progress for a job, whatever
\* the tick loop and RunNow do; a second run of the job cannot start while
\* one is in progress.
C15_RunsOfOneJobNeverOverlap ==
    \A j \in JobIds :
        /\ active[j] <= 1
        /\ active[j] = 1 => ~ENABLED StartRun(j, "tick")

\* runs of the two jobs are in progress at the same time, one started by the
\* tick loop and one by RunNow, the tick loop's job still being due
C15_Witness ==
    /\ active["job1"] = 1 /\ active["job2"] = 1
    /\ run["job1"].by # run["job2"].by
    /\ \E j \in JobIds : run[j].by = "tick" /\ jobs[j].nextRunAtMS < cronNow

C17_TurnTerminates ==
    /\ [](/\ turn.iters <= turn.maxIters
          /\ turn.pc = "done" =>
               /\ turn.outcome \in {"content", "error", "exhausted"}
               /\ turn.outcome = "exhausted" <=>
                    (turn.reply = StoppedAfter(turn.maxIters))
               /\ turn.outcome = "exhausted" => turn.iters = turn.maxIters
               /\ turn.iters >= 1)
    /\ (turn.pc \in {"llm", "tools"}) ~> (turn.pc = "done")

\* a turn with the default of 20 iterations was exhausted, the last tool call
\* having failed
C17_Witness ==
    /\ turn.pc = "done"
    /\ turn.outcome = "exhausted"
    /\ turn.maxIters = DefaultMaxIters
    /\ turn.iters = 20
    /\ turn.toolError

\* C18: Send makes at most 3 attempts; it returned nil exactly when its last
\* attempt succeeded (or there was nothing to send), it returned the error of
\* its last attempt exactly when that error was not retryable or the attempt
\* was the third, it returned the context error from the wait only with the
\* context cancelled and fewer than 3 attempts made; while it waits with the
\* context cancelled no further attempt can start and the return can; every
\* call returns.
C18_SendAtMostThreeAttempts ==
    /\ [](/\ send.attempts <= maxAttempts
          /\ send.attempt <= maxAttempts
          /\ (send.pc = "returned" /\ send.how = "sent") =>
               (send.err.isNil /\ send.attempts = send.attempt)
          /\ (send.pc = "returned" /\ send.how = "error") =>
               /\ ~send.err.isNil
               /\ send.attempts = send.attempt
               /\ \/ ~shouldRetryTelegramSend(send.err, send.attempt).retry
                  \/ send.attempts = 3
          /\ (send.pc = "returned" /\ send.how = "ctx") =>
               (sendCtx /\ send.attempts < 3 /\ send.attempts = send.attempt)
          /\ send.pc = "waiting" =>
               /\ send.attempts < 3
               /\ shouldRetryTelegramSend(send.err, send.attempt).retry
               /\ send.wait > 0
               /\ sendCtx => (~ENABLED WaitTimer /\ ENABLED WaitCtxDone)
          /\ (send.pc = "returned" /\ send.how \notin {"sent", "error", "ctx"}) =>
               send.attempts = 0)
    /\ (send.pc \in {"attempting", "waiting"}) ~> (send.pc = "returned")

\* the third attempt failed with a retryable error and Send returned it
C18_Witness ==
    /\ send.pc = "returned"
    /\ send.how = "error"
    /\ send.attempts = 3
    /\ shouldRetryTelegramSend(send.err, send.attempt).retry

\* Send returned the context error from its second wait
SendCancelledInWait ==
    /\ send.pc = "returned"
    /\ send.how = "ctx"
    /\ send.attempts = 2

\* the error's text names a 5xx status: "sendMessage, " followed by three
\* digits, the first a 5
Names5xx(err) ==
    /\ err.marker
    /\ Len(err.rest) >= 3
    /\ err.rest[1] = "5" /\ IsDigit(err.rest[2]) /\ IsDigit(err.rest[3])

\* C19: for the last call of shouldRetryTelegramSend(err, attempt): no retry
\* and wait 0 for a nil error and for context cancellation or deadline
\* exceeded; otherwise retry iff the error is TooManyRequests, a network
\* timeout or temporary error, or names a 5xx status; the wait is retryAfter
\* seconds for TooManyRequests with a positive retryAfter, positive for every
\* retry, and 0 for no retry.
C19_ShouldRetryAnswer ==
    retryCall.called =>
        LET err == retryCall.err
            a == retryCall.answer
            retryable == \/ err.tooMany
                         \/ err.net \in {"timeout", "temporary"}
                         \/ Names5xx(err)
        IN  /\ err.isNil => a = NoRetry
            /\ (~err.isNil /\ err.ctx # "none") => a = NoRetry
            /\ (~err.isNil /\ err.ctx = "none") =>
                 /\ a.retry <=> retryable
                 /\ (err.tooMany /\ err.retryAfter > 0) => a.wait = 1000 * err.retryAfter
                 /\ a.retry => a.wait > 0
                 /\ ~a.retry => a.wait = 0

\* a TooManyRequests error that carries a cancelled context was answered
\* with no retry
C19_Witness ==
    /\ retryCall.called
    /\ retryCall.err.tooMany
    /\ retryCall.err.retryAfter = 2
    /\ retryCall.err.ctx = "canceled"
    /\ ~retryCall.answer.retry


(***************************************************************************)
(* The Slack endpoint.                                                     *)
(***************************************************************************)
\* the request's signature verifies against the signing secret: the body was
\* received, a secret is configured, and the signature header is the HMAC of
\* the received body under that secret, with a recent timestamp
Verifies(q, secret) ==
    /\ secret # ""
    /\ q.readable
    /\ q.timestamp = "fresh"
    /\ q.signature.kind = "hmac"
    /\ q.signature.key = secret
    /\ q.signature.body = q.body

\* the requests answered so far
Answered == 1..nreq
\* the handleEvent goroutine of request r was started
Started(r) == req[r].pc # "none"

\* inbound messages are published for verified, acknowledged requests only:
\* a handleEvent goroutine exists only for a request that verified and got
\* the 200 "ok", and every message of Slack on the inbound queue is the one
\* message of such a request
PublishedOnlyAfterAck ==
    /\ \A r \in Answered :
           /\ Started(r) =>
                  /\ Verifies(req[r].q, slackChan.signingSecret)
                  /\ req[r].resp = Response(StatusOK, "ok")
           /\ req[r].msg # 0 <=> req[r].pc = "published"
    /\ \A i \in 1..Len(published["in"]) :
           published["in"][i].from = "slack" =>
               \E r \in Answered :
                   /\ req[r].msg = published["in"][i].id
                   /\ req[r].pc = "published"
                   /\ \A r2 \in Answered \ {r} : req[r2].msg # req[r].msg

\* C20 as stated: every POST whose signature does not verify against the
\* signing secret is answered 403 and never leads to a published inbound
\* message; a message is published only for a request that verified and was
\* acknowledged with 200.
C20_UnverifiedPostGets403 ==
    /\ \A r \in Answered :
           (req[r].q.method = "POST" /\ ~Verifies(req[r].q, slackChan.signingSecret)) =>
               /\ req[r].resp.status = StatusForbidden
               /\ ~Started(r)
               /\ req[r].msg = 0
    /\ PublishedOnlyAfterAck

\* C20 (amended): a POST whose signature does not verify is rejected and never
\* leads to a published inbound message: it is answered 500 when no signing
\* secret is configured, else 400 when the body cannot be read or the headers
\* give no verifier (signature or timestamp missing, signature not
\* hexadecimal, timestamp stale), else 403 (the HMAC differs); a message is
\* published only for a request that verified and was acknowledged with 200.
C20_UnverifiedPostRejectedUnpublished ==
    /\ \A r \in Answered :
           LET q == req[r].q
           IN  (q.method = "POST" /\ ~Verifies(q, slackChan.signingSecret)) =>
                   /\ req[r].resp.status =
                          IF slackChan.signingSecret = "" THEN StatusInternalServerError
                          ELSE IF ~q.readable \/ q.signature.kind # "hmac"
                                  \/ q.timestamp # "fresh"
                          THEN StatusBadRequest
                          ELSE StatusForbidden
                   /\ req[r].resp.body # "ok"
                   /\ ~Started(r)
                   /\ req[r].msg = 0
    /\ PublishedOnlyAfterAck

\* one request signed with another key was answered 403, one without a
\* signature 400, and the message of a verified request is on the bus
C20_Witness ==
    /\ \E r \in Answered :
           /\ req[r].q.signature = Sig("forged", req[r].q.body)
           /\ req[r].resp.status = StatusForbidden
    /\ \E r \in Answered :
           /\ req[r].pc = "published"
           /\ \E i \in 1..Len(published["in"]) : published["in"][i].id = req[r].msg

\* a POST without a signature header was answered 400
C20_UnsignedPostAnswered400 ==
    \E r \in Answered :
        /\ req[r].q.method = "POST"
        /\ req[r].q.signature = NoSig
        /\ req[r].resp.status = StatusBadRequest


(***************************************************************************)
(* The exec guard.                                                         *)
(***************************************************************************)
GuardMessages ==
    {"Error: Command blocked by safety guard (unsafe shell expansion detected)",
     "Error: Command blocked by safety guard (command chaining detected)",
     "Error: Command blocked by safety guard (redirection is not allowed)",
     "Error: Command blocked by safety guard (background chaining detected)",
     "Error: Command blocked by safety guard (tee is not allowed)",
     "Error: Command blocked by safety guard (dangerous pattern detected)",
     "Error: Command blocked by safety guard (path traversal detected)",
     "Error: Command blocked by safety guard (path outside workspace)",
     "Error: Command blocked by safety guard (sensitive path is not allowed)"}
\* the call returned the guard's message and did not start the command
Rejected == execCall.out \in GuardMessages /\ execCall.err = "" /\ ~execCall.ran
\* the call started the command
Accepted == execCall.ran /\ execCall.out \notin GuardMessages /\ execCall.err = ""

\* the command has one of the constructs of the list: an expansion, a ";", a
\* ">", a lone "&", tee as a word of its own, or a danger phrase at the start
\* of a word
UnsafeConstruct(c) ==
    \/ c.arg.kind \in {"expansion", "chaining", "redirection", "background"}
    \/ c.arg.kind = "tee" /\ c.glue = <<" ">>
    \/ c.arg.kind = "danger" /\ c.glue # <<" ", "-", "C">>

TrailingNewlineAccepted ==
    /\ execCall.pc = "returned"
    /\ execCall.command.arg.kind = "plain"
    /\ execCall.command.trail = <<"\n">>
    /\ Accepted

\* the argument is an absolute path (POSIX, Windows or ~/) outside the workspace
OutsideKinds == {"outside", "root", "windows", "home", "sensitive", "sensitive home"}

\* C22 as stated: with restriction on, a command that contains an absolute
\* path outside the workspace or a ../ traversal is rejected and a command
\* that only uses relative paths inside the workspace is accepted; with
\* restriction off the same absolute paths (but the root and the sensitive
\* directories, which the path policy denies) are accepted.
C22_RestrictedRejectsOutsidePaths ==
    execCall.pc = "returned" =>
        /\ (execCall.restrict /\ execCall.command.arg.kind \in OutsideKinds) => Rejected
        /\ (execCall.restrict /\ execCall.command.arg.kind = "traversal") => Rejected
        /\ (execCall.restrict /\ execCall.command.arg.kind = "relative") => Accepted
        /\ (~execCall.restrict /\ execCall.command.arg.kind \in {"outside", "windows", "home"})
               => Accepted

\* the same, for paths that are a word of the command or follow a "="
OutsidePathWordsRejected ==
    (execCall.pc = "returned" /\ execCall.command.glue \in WordGlues) =>
        /\ (execCall.restrict /\ execCall.command.arg.kind \in OutsideKinds) => Rejected
        /\ (execCall.restrict /\ execCall.command.arg.kind = "traversal") => Rejected
        /\ (execCall.restrict /\ execCall.command.arg.kind = "relative") => Accepted
        /\ (~execCall.restrict /\ execCall.command.arg.kind \in {"outside", "windows", "home"})
               => Accepted

\* with restriction on, a command with an absolute path after a pipe was run
OutsidePathAfterPipeAccepted ==
    /\ execCall.pc = "returned"
    /\ execCall.restrict
    /\ execCall.command.glue = <<"|">>
    /\ execCall.command.arg = Arg("outside", <<"/", "u", "s", "r", "/", "b", "i", "n", "/", "w", "c">>)
    /\ Accepted

(***************************************************************************)
(* The file tools in the workspace.                                        *)
(***************************************************************************)
InWorkspace(p) == isSameOrChildPath(p, Clean(Abs(WorkspaceDir)))

\* the path has a part the resolver must refuse
Malformed(p) ==
    \/ TrimSpace(p) = <<>>
    \/ \E i \in 1..Len(p) : p[i] = Nul
    \/ hasParentTraversal(p)
    \/ Contains(ToLower(p), <<".", ".", "%", "2", "f">>) \/ Contains(ToLower(p), <<"%", "2", "f", ".", ".">>)
    \/ Contains(ToLower(p), <<"%", "2", "e", "%", "2", "e">>)

\* C23 (as stated): in workspace-restricted mode every path resolvePath
\* returns, and every file or directory a file tool touches, is the workspace
\* or inside it, also after the symbolic links are evaluated; an empty path,
\* a NUL byte, a ".." component and a percent-encoded traversal return an
\* error.
C23_RestrictedToolsStayInWorkspace ==
    pathCall.pc = "returned" =>
        /\ Malformed(pathCall.path) => pathCall.resolved.err # ""
        /\ pathCall.restrict /\ pathCall.resolved.err = "" =>
               /\ InWorkspace(pathCall.resolved.path)
               /\ EvalSymlinks(pathCall.resolved.path).err = "" =>
                      InWorkspace(EvalSymlinks(pathCall.resolved.path).path)
        /\ pathCall.restrict => \A t \in pathCall.touched : InWorkspace(t)

\* malformed paths are refused in both modes, and nothing is touched
MalformedPathsRejected ==
    pathCall.pc = "returned" /\ Malformed(pathCall.path) =>
        pathCall.err # "" /\ pathCall.touched = {}

\* in restricted mode the path returned is inside the workspace, and when it
\* exists it is free of links
RestrictedResolvedInside ==
    pathCall.pc = "returned" /\ pathCall.restrict /\ pathCall.resolved.err = "" =>
        /\ InWorkspace(pathCall.resolved.path)
        /\ EvalSymlinks(pathCall.resolved.path).err = "" =>
               EvalSymlinks(pathCall.resolved.path).path = pathCall.resolved.path

\* in restricted mode no file outside the workspace is read, listed or written
RestrictedFilesInside ==
    pathCall.pc = "returned" /\ pathCall.restrict =>
        \A t \in pathCall.touched : t \in FsFiles \cup FsDirs \/ pathCall.err = "" => InWorkspace(t)

\* write_file makes a directory outside the workspace, through a link of the
\* workspace, and then returns the error
DirectoryMadeOutside ==
    /\ pathCall.pc = "returned" /\ pathCall.restrict /\ pathCall.tool = "write_file"
    /\ pathCall.path = <<"o", "u", "t", "/", "n", "e", "w", "d", "i", "r", "/", "n", "e", "w", ".", "t", "x", "t">>
    /\ pathCall.err = "path is outside workspace"
    /\ pathCall.touched = {<<"/", "e", "t", "c", "/", "n", "e", "w", "d", "i", "r">>}

\* a link of the workspace that leads outside is refused when the file exists
LinkToOutsideRefused ==
    /\ pathCall.pc = "returned" /\ pathCall.restrict
    /\ pathCall.path = <<"o", "u", "t", "/", "h", "o", "s", "t", "s">>
    /\ pathCall.err = "path is outside workspace"

(***************************************************************************)
(* The sensitive directories of the configuration directory.               *)
(***************************************************************************)
SensitiveKinds == {"sensitive", "sensitive home"}
\* the paths of ToolPaths under <configDir>/auth or <configDir>/whatsapp-auth
SensitiveToolPaths ==
    {<<"~", "/", ".", "c", "l", "a", "w", "l", "e", "t", "/", "a", "u", "t", "h", "/", "k", "e", "y">>, <<"~", "/", ".", "c", "l", "a", "w", "l", "e", "t", "/", "w", "h", "a", "t", "s", "a", "p", "p", "-", "a", "u", "t", "h", "/", "s", ".", "d", "b">>,
     <<"/", "h", "o", "m", "e", "/", "u", "/", ".", "c", "l", "a", "w", "l", "e", "t", "/", "a", "u", "t", "h", "/", "k", "e", "y">>, <<"/", "h", "o", "m", "e", "/", "u", "/", ".", "c", "l", "a", "w", "l", "e", "t", "/", "a", "u", "t", "h">>}

\* resolvePath refuses the sensitive paths with and without restriction
SensitivePathsUnresolved ==
    \A p \in SensitiveToolPaths, restrict \in BOOLEAN :
        /\ p \in ToolPaths
        /\ resolvePath(p, WorkspaceDir, restrict).err # ""

\* C24 (as stated): paths under <configDir>/auth and <configDir>/whatsapp-auth
\* are denied with and without restriction: the guard rejects a command that
\* names such a path, absolutely or with ~/, and resolvePath returns an error.
C24_SensitivePathsDenied ==
    /\ SensitivePathsUnresolved
    /\ (execCall.pc = "returned" /\ execCall.command.arg.kind \in SensitiveKinds) => Rejected

\* the same, for paths that are a word of the command or follow a "="
SensitivePathWordsRejected ==
    (/\ execCall.pc = "returned"
     /\ execCall.command.glue \in WordGlues
     /\ execCall.command.arg.kind \in SensitiveKinds)
        => /\ Rejected
           /\ ~execCall.restrict =>
                  execCall.out = "Error: Command blocked by safety guard (sensitive path is not allowed)"

\* without restriction, a command with a sensitive path after an option letter
\* was run
SensitivePathAfterOptionAccepted ==
    /\ execCall.pc = "returned"
    /\ ~execCall.restrict
    /\ execCall.command.glue = <<" ", "-", "C">>
    /\ execCall.command.arg = Arg("sensitive", <<"/", "h", "o", "m", "e", "/", "u", "/", ".", "c", "l", "a", "w", "l", "e", "t", "/", "w", "h", "a", "t", "s", "a", "p", "p", "-", "a", "u", "t", "h">>)
    /\ Accepted

\* a file tool called on a sensitive path returns the policy's error
SensitivePathToolRefused ==
    pathCall.pc = "returned" /\ pathCall.path \in SensitiveToolPaths =>
        pathCall.err = "path is blocked by safety policy" /\ pathCall.touched = {}

(***************************************************************************)
(* The domain policy of web_fetch.                                         *)
(***************************************************************************)
\* the pattern matches the host: they are equal, or the host ends with
\* "." and the pattern and neither is an IP address (both in normal form)
PatternMatches(host, pattern) ==
    LET h == normalizeFetchHost(host)
        p == normalizeDomainPattern(pattern)
    IN  /\ h # <<>> /\ p # <<>>
        /\ \/ h = p
           \/ HasSuffix(h, <<".">> \o p) /\ ~ParseIP(h) /\ ~ParseIP(p)
Blocks(B, host) == \E i \in 1..Len(B.items) : PatternMatches(host, B.items[i])
\* the allowed list, "*" when none is configured
AllowedOrAll(A) == IF A.nil THEN <<<<"*">>>> ELSE A.items
Allows(A, host) ==
    \E i \in 1..Len(AllowedOrAll(A)) :
        \/ normalizeDomainPattern(AllowedOrAll(A)[i]) = <<"*">>
        \/ PatternMatches(host, AllowedOrAll(A)[i])

\* C25: allowHostByPolicy(h, A, B) allows h iff no pattern of B matches h and
\* some pattern of A is "*" or matches h; so a blocked host is denied whatever
\* A is, A = ["*"] allows iff not blocked, and A = [] always denies; a pattern
\* matches h iff they are equal or h ends with "." + pattern and neither is
\* an IP address.
C25_AllowedIffNotBlockedAndListed ==
    hostCall.pc = "returned" =>
        /\ hostCall.ok <=> (~Blocks(hostCall.blocked, hostCall.host)
                            /\ Allows(hostCall.allowed, hostCall.host))
        /\ Blocks(hostCall.blocked, hostCall.host) => ~hostCall.ok
        /\ hostCall.allowed = Domains(<<<<"*">>>>) =>
               (hostCall.ok <=> ~Blocks(hostCall.blocked, hostCall.host))
        /\ hostCall.allowed = Domains(<<>>) => ~hostCall.ok
        /\ \A p \in DomainPatterns :
               domainMatchesPattern(hostCall.host, p) <=> PatternMatches(hostCall.host, p)
        /\ domainMatchesPattern(<<"a", "p", "i", ".", "e", "x", "a", "m", "p", "l", "e", ".", "c", "o", "m">>, <<"e", "x", "a", "m", "p", "l", "e", ".", "c", "o", "m">>)
        /\ ~domainMatchesPattern(<<"a", "p", "i", ".", "e", "x", "a", "m", "p", "l", "e", ".", "c", "o", "m">>, <<"o", "t", "h", "e", "r", ".", "c", "o", "m">>)

\* a host under a blocked domain was denied although the allowed list is "*"
C25_Witness ==
    /\ hostCall.pc = "returned"
    /\ hostCall.host = <<"a", "p", "i", ".", "e", "x", "a", "m", "p", "l", "e", ".", "c", "o", "m">>
    /\ hostCall.allowed = Domains(<<<<"*">>>>)
    /\ hostCall.blocked = Domains(<<<<"e", "x", "a", "m", "p", "l", "e", ".", "c", "o", "m">>>>)
    /\ ~hostCall.ok /\ hostCall.reason = "host is blocked by policy"

\* a host that only ends with the letters of an allowed domain was denied
LookalikeDenied ==
    /\ hostCall.pc = "returned"
    /\ hostCall.host = <<"n", "o", "t", "e", "x", "a", "m", "p", "l", "e", ".", "c", "o", "m">>
    /\ hostCall.allowed = Domains(<<<<"e", "x", "a", "m", "p", "l", "e", ".", "c", "o", "m">>>>)
    /\ ~hostCall.ok /\ hostCall.reason = "host is not in allowed domains"

\* an IP address is matched by the equal pattern only
AddressesMatchWhole ==
    /\ domainMatchesPattern(<<"1", "0", ".", "0", ".", "0", ".", "1">>, <<"1", "0", ".", "0", ".", "0", ".", "1">>)
    /\ ~domainMatchesPattern(<<"1", ".", "1", "0", ".", "0", ".", "0", ".", "1">>, <<"1", "0", ".", "0", ".", "0", ".", "1">>)
    /\ ~domainMatchesPattern(<<"1", "0", ".", "0", ".", "0", ".", "1">>, <<"0", ".", "0", ".", "1">>)
    /\ domainMatchesPattern(<<"[", ":", ":", "1", "]", ":", "4", "4", "3">>, <<":", ":", "1">>)

(***************************************************************************)
(* The environment of the commands of the exec tool.                       *)
(***************************************************************************)
\* the two processes have the same safe variables
SameSafeVariables ==
    \A n \in SafeNames : envCall.environ[1][n] = envCall.environ[2][n]

\* C26: the environment of a command run by exec holds only variables of the
\* safe set, each with the value of the gateway process, and no other
\* variable of the process; so two runs whose processes differ only in
\* non-safe variables give the same tool output.
C26_OnlySafeEnvironmentReachesCommand ==
    envCall.pc = "returned" =>
        /\ \A r \in 1..2 :
              /\ \A i \in 1..Len(envCall.cmdEnv[r]) :
                     /\ envCall.cmdEnv[r][i][1] \in SafeNames
                     /\ envCall.cmdEnv[r][i][2] = envCall.environ[r][envCall.cmdEnv[r][i][1]]
              /\ \A n \in SafeNames :
                     envCall.environ[r][n] # Unset =>
                         \E i \in 1..Len(envCall.cmdEnv[r]) : envCall.cmdEnv[r][i][1] = n
              /\ \A n \in OtherNames : Getenv(envCall.cmdEnv[r], n) = ""
        /\ SameSafeVariables => envCall.out[1] = envCall.out[2]

\* env was run in a process with a secret and in one without: same output
C26_Witness ==
    /\ envCall.pc = "returned"
    /\ envCall.command.kind = "env"
    /\ SameSafeVariables
    /\ envCall.environ[1]["CLAWLET_EXEC_TEST_SECRET"] = "super-secret"
    /\ envCall.environ[2]["CLAWLET_EXEC_TEST_SECRET"] = Unset
    /\ envCall.environ[1]["PATH"] = "/opt/bin"
    /\ envCall.out[1] = envCall.out[2]
    /\ envCall.out[1] = <<"exit=0", "stdout:", <<"PATH", "/opt/bin">>, <<"HOME", "/home/u">>,
                          <<"LANG", "C">>>>

\* processes with different safe variables give different outputs
SafeVariablesShow ==
    /\ envCall.pc = "returned"
    /\ envCall.command = [kind |-> "echo", name |-> "PATH"]
    /\ envCall.out[1] = <<"exit=0", "stdout:", "/opt/bin">>
    /\ envCall.out[2] = <<"exit=0", "stdout:", "/usr/bin:/bin">>

(***************************************************************************)
(* The tool registry.                                                      *)
(***************************************************************************)
\* C27: Definitions always lists the built-in tools read_file, write_file,
\* edit_file, list_dir, exec and web_fetch, and lists web_search, message,
\* spawn, cron and read_skill only when their capability is configured;
\* Execute of a tool whose capability is not configured, or of an unknown
\* tool, returns an error.
C27_DefinitionsGatedByCapabilities ==
    regCall.pc = "returned" =>
        /\ {"read_file", "write_file", "edit_file", "list_dir", "exec", "web_fetch"}
               \subseteq regCall.defs
        /\ "web_search" \in regCall.defs => regCall.registry.BraveAPIKey # ""
        /\ "message" \in regCall.defs => regCall.registry.Outbound
        /\ "spawn" \in regCall.defs => regCall.registry.Spawn
        /\ "cron" \in regCall.defs => regCall.registry.Cron
        /\ "read_skill" \in regCall.defs => regCall.registry.ReadSkill
        /\ regCall.name \in GatedTools /\ regCall.name \notin regCall.defs => regCall.err # ""
        /\ regCall.name \in {"shell", ""} => regCall.err # ""

\* a Registry with only the spawn callback lists spawn, and refuses message
C27_Witness ==
    /\ regCall.pc = "returned"
    /\ regCall.registry = [BraveAPIKey |-> "", Outbound |-> FALSE, Spawn |-> TRUE,
                           Cron |-> FALSE, ReadSkill |-> FALSE]
    /\ regCall.defs = BuiltinTools \cup {"spawn"}
    /\ regCall.name = "message"
    /\ regCall.err # ""

\* the tools that are listed are executed
ListedToolsRun ==
    regCall.pc = "returned" /\ regCall.name \in regCall.defs => regCall.err = ""

(***************************************************************************)
(* The allow list of the channels.                                         *)
(***************************************************************************)
Sender == TrimSpace(allowCall.senderID)
Listed(id) == \E i \in 1..Len(allowCall.AllowFrom) : id = allowCall.AllowFrom[i]
\* the sides of a compound id
Sides == {TrimSpace(SplitOn(Sender, {"|"})[k]) : k \in 1..Len(SplitOn(Sender, {"|"}))} \ {<<>>}
Compound == Contains(Sender, <<"|">>)

\* C28 (as stated): Allowed is true for every sender when the list is empty;
\* with a non-empty list a compound id a|b is allowed iff either side matches
\* an entry, a simple id iff it equals an entry, and a blank sender is denied.
C28_CompoundAllowedIffSideListed ==
    allowCall.pc = "returned" =>
        /\ Len(allowCall.AllowFrom) = 0 => allowCall.ok
        /\ Len(allowCall.AllowFrom) > 0 =>
               /\ Sender = <<>> => ~allowCall.ok
               /\ Sender # <<>> /\ Compound => (allowCall.ok <=> \E p \in Sides : Listed(p))
               /\ Sender # <<>> /\ ~Compound => (allowCall.ok <=> Listed(Sender))

\* C28 (amended): the same, but a compound id is allowed iff the whole id
\* equals an entry or one of its sides does.
C28_CompoundAllowedIffWholeOrSideListed ==
    allowCall.pc = "returned" =>
        /\ Len(allowCall.AllowFrom) = 0 => allowCall.ok
        /\ Len(allowCall.AllowFrom) > 0 =>
               /\ Sender = <<>> => ~allowCall.ok
               /\ Sender # <<>> /\ Compound =>
                      (allowCall.ok <=> Listed(Sender) \/ \E p \in Sides : Listed(p))
               /\ Sender # <<>> /\ ~Compound => (allowCall.ok <=> Listed(Sender))

\* the compound id c|a was allowed by the entry a
C28_Witness ==
    /\ allowCall.pc = "returned"
    /\ allowCall.AllowFrom = <<<<"a">>>>
    /\ allowCall.senderID = <<"c", "|", "a">>
    /\ allowCall.ok

\* the compound id a|b was allowed by the entry a|b, which is neither side
CompoundEntryAllowsWhole ==
    /\ allowCall.pc = "returned"
    /\ allowCall.AllowFrom = <<<<"a", "|", "b">>>>
    /\ allowCall.senderID = <<"a", "|", "b">>
    /\ allowCall.ok

(***************************************************************************)
(* The slash commands.                                                     *)
(***************************************************************************)
\* /new and /help, bare, with an @bot suffix, with arguments
NewTexts == {<<"/", "n", "e", "w">>, <<"/", "n", "e", "w", "@", "m", "y", "_", "b", "o", "t">>, <<"/", "n", "e", "w", " ", "p", "l", "e", "a", "s", "e">>}
HelpTexts == {<<"/", "h", "e", "l", "p">>, <<"/", "h", "e", "l", "p", " ", "p", "l", "e", "a", "s", "e">>, <<"/", "h", "e", "l", "p", "@", "m", "y", "_", "b", "o", "t", " ", "n", "o", "w">>}
OtherSlashTexts == {<<"/", "u", "n", "k", "n", "o", "w", "n">>, <<"/", "n", "e", "w", "e", "r">>, <<"/", "s", "t", "o", "p", "@", "m", "y", "_", "b", "o", "t", " ", "x">>, <<"/">>}

\* C29: /new, also with an @bot suffix or with arguments (normalised to /new),
\* is handled and clears the messages of the session, keeping its key and
\* metadata; /help is handled and returns a non-empty static text; every
\* other slash command is not handled, with an empty response, and leaves the
\* session unchanged.
C29_SlashCommandsHandled ==
    slashCall.pc = "returned" =>
        /\ slashCall.text \in NewTexts =>
               /\ normalizeSlashCommand(slashCall.text) = <<"/", "n", "e", "w">>
               /\ slashCall.handled
               /\ slashCall.after.Messages = <<>>
               /\ slashCall.after.Key = slashCall.before.Key
               /\ slashCall.after.Metadata = slashCall.before.Metadata
        /\ slashCall.text \in HelpTexts =>
               /\ slashCall.handled
               /\ slashCall.out = HelpText /\ slashCall.out # ""
               /\ slashCall.after = slashCall.before
        /\ slashCall.text \in OtherSlashTexts =>
               /\ ~slashCall.handled
               /\ slashCall.out = ""
               /\ slashCall.after = slashCall.before

\* /new@my_bot cleared a session of two messages that has metadata
C29_Witness ==
    /\ slashCall.pc = "returned"
    /\ slashCall.text = <<"/", "n", "e", "w", "@", "m", "y", "_", "b", "o", "t">>
    /\ slashCall.before = [Key |-> "telegram:1", Messages |-> <<"hello", "world">>,
                           Metadata |-> 1]
    /\ slashCall.after = [Key |-> "telegram:1", Messages |-> <<>>, Metadata |-> 1]
    /\ slashCall.handled

\* the cases of TestNormalizeSlashCommand
NormalizeCases ==
    /\ normalizeSlashCommand(<<>>) = <<>>
    /\ normalizeSlashCommand(<<"/", "h", "e", "l", "p">>) = <<"/", "h", "e", "l", "p">>
    /\ normalizeSlashCommand(<<"/", "h", "e", "l", "p", " ", "p", "l", "e", "a", "s", "e">>) = <<"/", "h", "e", "l", "p">>
    /\ normalizeSlashCommand(<<"/", "n", "e", "w", "@", "m", "y", "_", "b", "o", "t">>) = <<"/", "n", "e", "w">>
    /\ normalizeSlashCommand(<<"h", "e", "l", "l", "o">>) = <<"h", "e", "l", "l", "o">>

(***************************************************************************)
(* Save: the choice between the append path and the compact path.          *)
(***************************************************************************)
\* one of the conditions of the compact path holds of the session and its file
CompactionDue ==
    \/ needsCompaction
    \/ appendSaves >= appendCompactionEverySaves
    \/ metadataLineCount >= appendCompactionMaxMetadataLines
    \/ file.exists /\ FileSize(file) >= appendCompactionMaxFileBytes
    \/ persistedMessages > Len(Messages)

\* C30: Save takes the compact path iff needsCompaction is set, or
\* appendSaves >= everyN, or metadataLineCount >= maxMeta, or the size of the
\* file >= maxBytes, or persistedMessages > len(messages); otherwise it takes
\* the append path, which writes one fresh metadata line followed by exactly
\* messages[persistedMessages..end), sets persistedMessages = len(messages)
\* and adds one to appendSaves and to metadataLineCount.
C30_SaveChoosesAppendOrCompact ==
    [][last'.op = "Save" =>
          /\ last'.path = "compact" <=> CompactionDue
          /\ last'.path = "append" <=> ~CompactionDue
          /\ last'.path = "append" =>
                 /\ file'.exists
                 /\ file'.lines = file.lines \o <<MetaLine(UpdatedAt, Metadata)>>
                        \o [i \in 1..(Len(Messages) - persistedMessages) |->
                                MsgLine(Messages[persistedMessages + i])]
                 /\ persistedMessages' = Len(Messages)
                 /\ appendSaves' = appendSaves + 1
                 /\ metadataLineCount' = metadataLineCount + 1]_vars

\* an append save wrote a second metadata line and one new message after it
C30_Witness ==
    /\ last.op = "Save" /\ last.path = "append"
    /\ appendSaves = 1 /\ metadataLineCount = 2
    /\ Len(Messages) = 2 /\ persistedMessages = 2
    /\ Len(file.lines) = 4
    /\ file.lines[3].type = "metadata"
    /\ file.lines[4] = MsgLine(Messages[2])

\* the states in which one condition alone sends the next Save to the compact
\* path
OnlyFlagDue ==
    /\ needsCompaction /\ appendSaves < appendCompactionEverySaves
    /\ metadataLineCount < appendCompactionMaxMetadataLines
    /\ FileSize(file) < appendCompactionMaxFileBytes /\ persistedMessages <= Len(Messages)
OnlySavesDue ==
    /\ ~needsCompaction /\ appendSaves >= appendCompactionEverySaves
    /\ metadataLineCount < appendCompactionMaxMetadataLines
    /\ FileSize(file) < appendCompactionMaxFileBytes /\ persistedMessages <= Len(Messages)
OnlyMetadataLinesDue ==
    /\ ~needsCompaction /\ appendSaves < appendCompactionEverySaves
    /\ metadataLineCount >= appendCompactionMaxMetadataLines
    /\ FileSize(file) < appendCompactionMaxFileBytes /\ persistedMessages <= Len(Messages)
OnlySizeDue ==
    /\ ~needsCompaction /\ appendSaves < appendCompactionEverySaves
    /\ metadataLineCount < appendCompactionMaxMetadataLines
    /\ FileSize(file) >= appendCompactionMaxFileBytes /\ persistedMessages <= Len(Messages)
OnlyShrunkDue ==
    /\ ~needsCompaction /\ appendSaves < appendCompactionEverySaves
    /\ metadataLineCount < appendCompactionMaxMetadataLines
    /\ FileSize(file) < appendCompactionMaxFileBytes /\ persistedMessages > Len(Messages)

(***************************************************************************)
(* The file's metadata lines and the counters, across restarts.            *)
(***************************************************************************)
\* a threshold of the compact path is reached: the count of append saves, the
\* count of metadata lines or the size of the file
ThresholdReached ==
    \/ appendSaves >= appendCompactionEverySaves
    \/ metadataLineCount >= appendCompactionMaxMetadataLines
    \/ file.exists /\ FileSize(file) >= appendCompactionMaxFileBytes

\* after a Save the file has at most maxMeta metadata lines, as many as
\* metadataLineCount says
MetadataLinesBounded ==
    last.op = "Save" =>
        /\ FileMetaLines <= appendCompactionMaxMetadataLines
        /\ FileMetaLines = metadataLineCount

\* a Save that finds a threshold reached compacts and leaves one metadata line
ThresholdSaveCompacts ==
    [][(last'.op = "Save" /\ ThresholdReached) =>
          /\ last'.path = "compact"
          /\ Len(SelectSeq(file'.lines, IsMeta)) = 1
          /\ metadataLineCount' = 1]_vars

\* C31 (as stated): after every successful Save, in any sequence of Load, Add,
\* ApplyConsolidation and Save, the file has at most maxMeta metadata lines and
\* as many as metadataLineCount says, and the number of append saves since the
\* last compaction is at most everyN; a Save that finds a threshold reached
\* compacts and leaves exactly one metadata line.
C31_AppendSavesSinceCompactionBounded ==
    /\ [](MetadataLinesBounded
          /\ (last.op = "Save" => last.appends <= appendCompactionEverySaves))
    /\ ThresholdSaveCompacts

\* C31 (amended): the same with the session's appendSaves counter, which counts
\* the append saves of this session object since its last compaction or its
\* Load, at most everyN; the append saves made to the file since its last
\* compaction stay at most maxMeta.
C31_MetadataLinesAndCountersBounded ==
    /\ [](MetadataLinesBounded
          /\ (last.op = "Save" =>
                 /\ appendSaves <= appendCompactionEverySaves
                 /\ last.appends <= appendCompactionMaxMetadataLines))
    /\ ThresholdSaveCompacts

\* after a Load an append save has brought the file to maxMeta metadata lines
C31_Witness ==
    /\ last.op = "Save" /\ last.path = "append"
    /\ restarts >= 1
    /\ FileMetaLines = appendCompactionMaxMetadataLines
    /\ metadataLineCount = appendCompactionMaxMetadataLines
    /\ appendSaves = 1

\* the Save after that compacts on the count of metadata lines alone
MetadataLinesCompacted ==
    /\ last.op = "Save" /\ last.path = "compact"
    /\ restarts = MaxRestarts /\ ~last.applied
    /\ Messages = appended
    /\ FileMetaLines = 1

(***************************************************************************)
(* Save: a compaction that fails.                                          *)
(***************************************************************************)
\* a failed compacting Save leaves the target file, the messages and the three
\* counters as they were, and the next Save compacts
FailedCompactionKeeps ==
    /\ last'.path = "compact"
    /\ file' = file
    /\ UNCHANGED <<Messages, Metadata, version>>
    /\ persistedMessages' = persistedMessages
    /\ appendSaves' = appendSaves
    /\ metadataLineCount' = metadataLineCount
    /\ shouldCompact(needsCompaction' \/ persistedMessages' > Len(Messages'),
                     appendSaves', metadataLineCount', file')

\* C32 (as stated): if a compacting Save fails at any step (creating, writing,
\* flushing or closing the temporary file, or the rename), the target file
\* still holds its complete previous content, and persistedMessages,
\* appendSaves, metadataLineCount and needsCompaction are unchanged, so the
\* next Save compacts again.
C32_FailedCompactionChangesNothing ==
    [][(last'.op = "Save" /\ ~last'.ok) =>
          /\ FailedCompactionKeeps
          /\ needsCompaction' = needsCompaction]_vars

\* C32 (amended): the same, but needsCompaction is set by the failed Save when
\* it found persistedMessages > len(messages), and unchanged otherwise.
C32_FailedCompactionKeepsFileAndCounters ==
    [][(last'.op = "Save" /\ ~last'.ok) =>
          /\ FailedCompactionKeeps
          /\ needsCompaction' = (needsCompaction \/ persistedMessages > Len(Messages))]_vars

\* a compaction after a consolidation has failed at the rename: the temporary
\* file holds the kept message, the target still both messages it had
C32_Witness ==
    /\ last.op = "Save" /\ ~last.ok /\ last.step = "rename"
    /\ last.applied /\ needsCompaction
    /\ Len(Messages) = 1
    /\ last.tmp.exists /\ Len(last.tmp.lines) = 2
    /\ FileMessages = appended /\ Len(FileMessages) = 2
    /\ persistedMessages = 2

\* a failed Save has set the flag of a session cleared by /new
FailedSaveSetsFlag ==
    /\ last.op = "Save" /\ ~last.ok
    /\ needsCompaction /\ ~last.applied
    /\ Messages = <<>> /\ persistedMessages > 0 /\ appendSaves = 0
    /\ metadataLineCount < appendCompactionMaxMetadataLines

\* every step fails in some state with a temporary file cut short
StepFails(step) == last.op = "Save" /\ ~last.ok /\ last.step = step
CreateFails == StepFails("create") /\ ~last.tmp.exists
WriteFails == StepFails("write") /\ last.tmp.exists /\ Len(last.tmp.lines) = 1
FlushFails == StepFails("flush") /\ last.tmp.exists /\ last.tmp.lines = <<>>
CloseFails == StepFails("close") /\ Len(last.tmp.lines) = 1 + Len(Messages)

(***************************************************************************)
(* SnapshotForConsolidation.                                               *)
(***************************************************************************)
\* the window a call counts with: 50 when the argument is not positive
CountedWindow(memoryWindow) == IF memoryWindow <= 0 THEN 50 ELSE memoryWindow

\* C33: SnapshotForConsolidation(window) (window <= 0 meaning 50) returns
\* ok = true only if the session holds n > window messages; then
\* keep = min(10, max(2, window/2)), old is a copy of the first n - keep
\* messages in order and the returned version is the session's current
\* version; with n <= window it returns ok = false; in both cases the session
\* is unchanged.
C33_SnapshotReturnsOldPrefix ==
    last.op = "SnapshotForConsolidation" =>
        /\ last.ok =>
             /\ Len(last.pre.Messages) > CountedWindow(last.window)
             /\ last.keep = Min(10, Max(2, CountedWindow(last.window) \div 2))
             /\ Len(last.old) = Len(last.pre.Messages) - last.keep
             /\ \A i \in 1..Len(last.old) : last.old[i] = last.pre.Messages[i]
             /\ last.ver = last.pre.version
        /\ Len(last.pre.Messages) <= CountedWindow(last.window) => ~last.ok
        /\ Messages = last.pre.Messages
        /\ version = last.pre.version
        /\ UpdatedAt = last.pre.UpdatedAt
        /\ needsCompaction = last.pre.needsCompaction

\* a snapshot with the default window: 51 messages, the first 41 returned
C33_Witness ==
    /\ last.op = "SnapshotForConsolidation" /\ last.ok
    /\ last.window = 0
    /\ Len(Messages) = 51
    /\ last.keep = 10 /\ Len(last.old) = 41
    /\ last.old[41] = Messages[41]
    /\ last.ver = 51

\* snapshots of a small window, of a keep of 3 and of a session that was
\* consolidated before
SmallWindowSnapshot ==
    /\ last.op = "SnapshotForConsolidation" /\ last.ok
    /\ last.window = 2 /\ Len(Messages) = 3 /\ last.keep = 2 /\ Len(last.old) = 1
KeepThreeSnapshot ==
    /\ last.op = "SnapshotForConsolidation" /\ last.ok
    /\ last.window = 6 /\ last.keep = 3 /\ Len(Messages) = 7
SecondSnapshot ==
    /\ last.op = "SnapshotForConsolidation" /\ last.ok
    /\ version > Len(appended) /\ last.ver = version
    /\ last.old[1] # appended[1]
\* and the refusals: at the window, and with a negative window below 51
SnapshotRefusedAtWindow ==
    /\ last.op = "SnapshotForConsolidation" /\ ~last.ok
    /\ last.window = 4 /\ Len(Messages) = 4
    /\ last.keep = 0 /\ last.ver = 0 /\ last.old = <<>>
SnapshotRefusedBelowDefault ==
    /\ last.op = "SnapshotForConsolidation" /\ ~last.ok
    /\ last.window = -1 /\ Len(Messages) = 50

(***************************************************************************)
(* AddWithTools: the stored list of tool names.                            *)
(***************************************************************************)
\* the list stored on the message the last AddWithTools call appended
StoredTools == Messages[Len(Messages)].tools

NoNameTwice(names) ==
    \A i, j \in 1..Len(names) : names[i] = names[j] => i = j

\* C34: the toolsUsed list stored on a message by AddWithTools consists of
\* deduplicated, trimmed, non-empty names: blank names are dropped,
\* surrounding white space is removed, and no name occurs twice in the stored
\* list whatever list the caller passed.
C34_StoredToolsDeduplicated ==
    (last.op = "Add" /\ Messages # <<>>) =>
        /\ \A i \in 1..Len(StoredTools) :
             StoredTools[i] # <<>> /\ TrimSpace(StoredTools[i]) = StoredTools[i]
        /\ NoNameTwice(StoredTools)

\* The part of it that holds: the stored names are the passed names trimmed,
\* in the order passed, without the blank ones.
StoredToolsTrimmedNonEmpty ==
    (last.op = "Add" /\ Messages # <<>>) =>
        /\ \A i \in 1..Len(StoredTools) :
             StoredTools[i] # <<>> /\ TrimSpace(StoredTools[i]) = StoredTools[i]
        /\ StoredTools = SelectSeq([i \in 1..Len(last.toolsUsed) |->
                                       TrimSpace(last.toolsUsed[i])],
                                   LAMBDA name : name # <<>>)
        /\ Range(StoredTools) =
               {TrimSpace(last.toolsUsed[i]) : i \in 1..Len(last.toolsUsed)} \ {<<>>}

\* a blank name was dropped and a name trimmed
BlankDroppedNameTrimmed ==
    /\ last.op = "Add"
    /\ last.toolsUsed = <<<<" ", "\t">>, <<" ", "e", "x", "e", "c", "\n">>,
                          <<"r", "e", "a", "d", "_", "f", "i", "l", "e">>>>
    /\ StoredTools = <<<<"e", "x", "e", "c">>, <<"r", "e", "a", "d", "_", "f", "i", "l", "e">>>>

\* a name passed twice is stored twice
NameStoredTwice ==
    /\ last.op = "Add"
    /\ last.toolsUsed = <<<<"e", "x", "e", "c">>, <<"e", "x", "e", "c">>>>
    /\ StoredTools = <<<<"e", "x", "e", "c">>, <<"e", "x", "e", "c">>>>

(***************************************************************************)
(* Shutdown: the bus calls in progress at the cancellation.                *)
(***************************************************************************)
Blocked(t) == call[t].status = "blocked"

\* C35: after the root context is cancelled no task stays blocked forever in
\* a bus publish or consume: each PublishInbound that is blocked on a full bus,
\* issued by a channel's inbound handler (the Slack events handler included),
\* returns.
C35_NoTaskBlockedAfterCancel ==
    \A t \in Tasks : (ctxDone /\ Blocked(t)) ~> ~Blocked(t)

\* The part of it that holds: the calls made with the root context return.
CancellableCallsReturn ==
    \A t \in Tasks \ {"slack"} : (ctxDone /\ Blocked(t)) ~> ~Blocked(t)

\* and a publish they were blocked in on a full queue has returned the error
CancelledPublishReturned ==
    /\ ctxDone
    /\ call["telegram"].op = "PublishInbound" /\ call["telegram"].status = "returned"
    /\ call["telegram"].err
    /\ Len(chanBuf["in"]) = bufferSize

\* the Slack handler's publish on a full queue after the cancellation, with
\* the loop returned from its consume
SlackPublishStuck ==
    /\ ctxDone
    /\ call["slack"].op = "PublishInbound" /\ Blocked("slack")
    /\ Len(chanBuf["in"]) = bufferSize
    /\ call["loop"].status = "returned" /\ call["loop"].err

(***************************************************************************)
(* write_file beside a process that replaces paths by symbolic links.      *)
(***************************************************************************)
InsideWorkspace(p) == isSameOrChildPath(p, WorkspaceDir)

\* C36: with the restriction on, write_file never writes outside the
\* workspace and never through a symbolic link at the target, also when
\* another process replaces a component of the path or the target by a
\* symbolic link while the call runs: whatever the call wrote is the target
\* it checked, inside the workspace.
C36_WriteStaysInsideWorkspace ==
    \A w \in writeCall.wrote : InsideWorkspace(w) /\ w = writeCall.target

\* a write outside the workspace comes from a link made after the check it
\* had to pass: after EvalSymlinks(parent), or after os.Lstat(target)
OutsideWriteFollowsLateSwap ==
    (\E w \in writeCall.wrote : ~InsideWorkspace(w)) =>
        \E l \in writeCall.links : l.at \in {"lstat", "write"}

\* without a concurrent change, and with a change made before
\* EvalSymlinks(parent), the write is the checked target inside the workspace
EarlySwapCaught ==
    (\A l \in writeCall.links : l.at \in {"mkdir", "eval"}) =>
        \A w \in writeCall.wrote : InsideWorkspace(w) /\ w = writeCall.target

\* the target was replaced by a link to /etc/hosts after os.Lstat, and the
\* write went to /etc/hosts
TargetSwappedAfterLstat ==
    /\ writeCall.pc = "returned" /\ writeCall.err = ""
    /\ writeCall.target = <<"/", "t", "m", "p", "/", "w", "s", "/", "s", "u", "b", "/", "b", ".", "t", "x", "t">>
    /\ \E l \in writeCall.links : l.from = writeCall.target /\ l.at = "write"
    /\ writeCall.wrote = {<<"/", "e", "t", "c", "/", "h", "o", "s", "t", "s">>}

\* the parent directory was replaced by a link to /etc after
\* EvalSymlinks(parent), and a new file was made in /etc
ParentSwappedAfterEval ==
    /\ writeCall.pc = "returned" /\ writeCall.err = ""
    /\ \E l \in writeCall.links :
           l.from = <<"/", "t", "m", "p", "/", "w", "s", "/", "s", "u", "b">> /\ l.at \in {"lstat", "write"}
    /\ \E w \in writeCall.wrote : PathDir(w) = <<"/", "e", "t", "c">>

\* the target was replaced before os.Lstat and the write was refused
SwapBeforeLstatRefused ==
    /\ writeCall.pc = "returned"
    /\ writeCall.err = "refusing to write through symlink"
    /\ writeCall.links # {}
    /\ writeCall.wrote = {}

(***************************************************************************)
(* web_search: the result count.                                           *)
(***************************************************************************)
\* C37: web_search uses a count clamped to [1, 10] with default 5: a missing
\* or non-positive count becomes 5, a count from 1 to 10 is used unchanged, a
\* count above 10 becomes 10; at most that many results are formatted.
C37_CountClamped ==
    searchCall.pc = "returned" =>
        /\ searchCall.count <= 0 => searchCall.used = 5
        /\ searchCall.count \in 1..10 => searchCall.used = searchCall.count
        /\ searchCall.count > 10 => searchCall.used = 10
        /\ searchCall.formatted <= searchCall.used

\* the count is in 1..10: a missing or non-positive count becomes 5, a count
\* from 1 to 10 is used unchanged, a count above 10 becomes 5; no more results
\* than that are formatted, and no more than Brave returned
CountInRange ==
    searchCall.pc = "returned" =>
        /\ searchCall.used \in 1..10
        /\ searchCall.count <= 0 => searchCall.used = 5
        /\ searchCall.count \in 1..10 => searchCall.used = searchCall.count
        /\ searchCall.count > 10 => searchCall.used = 5
        /\ searchCall.formatted <= searchCall.used
        /\ searchCall.formatted <= searchCall.results
        /\ searchCall.results >= searchCall.used => searchCall.formatted = searchCall.used

\* eleven results were asked for and seven of the results were returned: five
\* are formatted
ElevenAsked ==
    /\ searchCall.pc = "returned"
    /\ searchCall.count = 11 /\ searchCall.results = 7
    /\ searchCall.used = 5 /\ searchCall.formatted = 5

\* ten results asked for, twelve returned, ten formatted
TenAsked ==
    /\ searchCall.pc = "returned"
    /\ searchCall.count = 10 /\ searchCall.results = 12
    /\ searchCall.formatted = 10

(***************************************************************************)
(* Manager.GetOrCreate: one session per key.                               *)
(***************************************************************************)
\* C38: for one Manager and one key every GetOrCreate call, calls that race
\* on the first use of the key included, returns the same Session object:
\* no two tasks hold different sessions of one key.
C38_OneSessionPerKey ==
    \A a, b \in mgr.returned : a.key = b.key => a.s = b.s

\* calls for a key that do not overlap a call loading it return one object,
\* and a call that finds the key in the cache returns the cached object
CallsInTurnShareSession ==
    /\ ~mgr.overlap => \A a, b \in mgr.returned : a.key = b.key => a.s = b.s
    /\ \A r \in mgr.returned : r.s \in 1..mgr.made
    /\ \A k \in SessionKeys : mgr.cache[k] \in 0..mgr.made

\* two calls raced on the first use of cli:1 and returned two objects
TwoSessionsOfOneKey ==
    /\ mgr.returned = {[key |-> "cli:1", s |-> 1], [key |-> "cli:1", s |-> 2]}
    /\ mgr.overlap

\* two calls in turn returned the one object of the cache
SecondCallFromCache ==
    /\ ~mgr.overlap
    /\ mgr.calls["t2"] = [pc |-> "returned", key |-> "cli:1", s |-> 1, err |-> FALSE]
    /\ [key |-> "cli:1", s |-> 1] \in mgr.returned
    /\ mgr.cache["cli:1"] = 1

(***************************************************************************)
(* The consolidation trigger against the snapshot.                         *)
(***************************************************************************)
\* C39: for every window, windows of 1 to 3 included, and every session,
\* NeedsConsolidation(window) is true iff SnapshotForConsolidation(window)
\* returns ok = true; and after an ApplyConsolidation that succeeded with the
\* keep of the snapshot, NeedsConsolidation(window) is false.
C39_TriggerAgreesWithSnapshot ==
    /\ last.op = "SnapshotForConsolidation" =>
           (NeedsConsolidation(Messages, last.window) <=> last.ok)
    /\ last.op = "Apply" /\ last.path = "snapshot" /\ last.ok =>
           ~NeedsConsolidation(Messages, last.window)

\* the same for every window but 1; with any window a snapshot is returned
\* only when the trigger is on, and the applied session holds keep messages
TriggerAgreesButForWindowOne ==
    /\ last.op = "SnapshotForConsolidation" =>
           /\ last.ok => NeedsConsolidation(Messages, last.window)
           /\ last.window # 1 => (NeedsConsolidation(Messages, last.window) <=> last.ok)
    /\ last.op = "Apply" /\ last.path = "snapshot" /\ last.ok =>
           /\ Len(Messages) = last.keep
           /\ last.window # 1 => ~NeedsConsolidation(Messages, last.window)

\* window 1, two messages: the trigger is on and the snapshot is refused
WindowOneRefused ==
    /\ last.op = "SnapshotForConsolidation" /\ ~last.ok
    /\ last.window = 1 /\ Len(Messages) = 2
    /\ NeedsConsolidation(Messages, 1)

\* window 1, three messages consolidated to two: the trigger is still on
WindowOneStillOver ==
    /\ last.op = "Apply" /\ last.path = "snapshot" /\ last.ok
    /\ last.window = 1 /\ last.keep = 2 /\ Len(Messages) = 2
    /\ NeedsConsolidation(Messages, 1)

\* windows 2 and 3: consolidated to two messages, the trigger is off
WindowThreeConsolidated ==
    /\ last.op = "Apply" /\ last.path = "snapshot" /\ last.ok
    /\ last.window = 3 /\ Len(Messages) = 2
    /\ ~NeedsConsolidation(Messages, 3)

(***************************************************************************)
(* Consolidation and the archive of the messages it removes.               *)
(***************************************************************************)
\* the consolidation removed messages from the session
ConsolidationRemoved ==
    /\ cons.pc \in {"committed", "failed"}
    /\ cons.ok
    /\ Len(cons.after) < Len(cons.before)

\* C40: consolidation never drops messages without archiving them: whenever
\* maybeConsolidateSession removed messages from the session, a history entry
\* has been appended to HISTORY.md by that call, also when summarize returns
\* an empty history_entry and when the write of the history file fails.
C40_RemovedMessagesArchived ==
    ConsolidationRemoved => cons.histWrites = 1 /\ historyFile.exists

\* messages are removed without an entry only when the entry is blank or the
\* write failed; a call that returns true after a history entry that is not
\* blank has appended it
RemovedWithoutEntryCases ==
    /\ ConsolidationRemoved /\ cons.histWrites = 0 =>
           \/ cons.pc = "failed" /\ cons.err
           \/ cons.pc = "committed" /\ cons.done
    /\ cons.histWrites = 1 =>
           /\ cons.pc = "committed" /\ cons.done /\ cons.ok
           /\ historyFile.exists /\ historyFile.entries # <<>>

\* summarize returned an empty history_entry: messages removed, the call
\* returned true, HISTORY.md does not exist
EmptyEntryDropsMessages ==
    /\ ConsolidationRemoved
    /\ cons.pc = "committed" /\ cons.done
    /\ cons.histWrites = 0 /\ ~historyFile.exists

\* AppendHistory failed: messages removed, the call returned an error
FailedWriteDropsMessages ==
    /\ ConsolidationRemoved
    /\ cons.pc = "failed" /\ cons.err
    /\ cons.histWrites = 0 /\ ~historyFile.exists

\* the entry was appended
EntryArchived ==
    /\ ConsolidationRemoved
    /\ cons.histWrites = 1
    /\ historyFile.entries = <<"entry">>

====
